---- MODULE Spec2Model ----
(***************************************************************************)
(* A model of the firewheel audio-graph engine: the graph store            *)
(* (firewheel-graph/src/graph.rs), the graph compiler                      *)
(* (graph/compiler.rs), the control context (context.rs) and the realtime  *)
(* processor (processor.rs), with the two rtrb ring buffers between them.  *)
(*                                                                         *)
(* Conventions.  A thunderdome::Index is the pair <<slot, generation>>;    *)
(* slot s of the model is thunderdome's slot s-1 (sequences start at 1).   *)
(* Port indices are the code's (they start at 0).  NodeEntry.incoming and  *)
(* NodeEntry.outgoing are caches that preprocess() rebuilds before every   *)
(* use, so they are operators (Incoming, Outgoing) and not state.          *)
(***************************************************************************)
EXTENDS Integers, Sequences, FiniteSets, TLC

VARIABLES
    graph,      \* AudioGraph: the fields of the struct, as a record
    last,           \* the last call made on the graph or the context: [op, ret], and the number n of calls counted
    cx,             \* the control context: Inactive or Active, and where it is in update()/deactivate()
    to_executor,    \* the ring buffer to_executor_tx -> from_graph_rx
    to_graph,       \* the ring buffer to_graph_tx -> from_executor_rx
    processor,      \* FirewheelProcessor: its fields, and where the callback is
    ghost           \* history: what was pushed, received, destroyed on the realtime thread

vars == <<graph, last, cx, to_executor, to_graph, processor, ghost>>
ctxVars == <<cx, to_executor, to_graph, processor, ghost>>

(***************************************************************************)
(* Bounds of the model.                                                    *)
(***************************************************************************)
CompileNodeSlots == 4   \* SpecCompile: slots of the node arena (the two sentinels included)
CompileEdgeSlots == 4   \* SpecCompile: slots of the edge arena
StoreNodeSlots == 4     \* SpecStore: slots of the node arena (the two sentinels included)
StoreNodeGen == 1       \* SpecStore: largest generation of a node slot
StoreEdgeSlots == 2     \* SpecStore: slots of the edge arena
StoreEdgeGen == 2       \* SpecStore: largest generation of an edge slot
ChainNodeSlots == 5     \* SpecChain: slots of the node arena (the two sentinels included)
ChainEdgeSlots == 3     \* SpecChain: slots of the edge arena
PortsNodeSlots == 4     \* SpecPorts: slots of the node arena (the two sentinels included)
PortsEdgeSlots == 2     \* SpecPorts: slots of the edge arena
PortsEdgeGen == 2       \* SpecPorts: largest generation of an edge slot
ChannelCapacity == 2    \* Spec: slots of each ring buffer
MaxActivations == 1     \* Spec: activate() calls
SpecNodeSlots == 4      \* Spec: slots of the node arena (the two sentinels included)
StoreCalls == 6         \* SpecStore: calls made on the graph
CycleNodeSlots == 5     \* SpecCycle: slots of the node arena (the two sentinels included)
CycleEdgeSlots == 3     \* SpecCycle: slots of the edge arena
CycleEdgeGen == 1       \* SpecCycle: largest generation of an edge slot
MaxBlockFrames == 128   \* max_block_frames of the processor
UpdateNodeSlots == 4    \* SpecUpdate: slots of the node arena (the two sentinels included)
UpdateDeactivateCalls == 1  \* SpecUpdate: deactivate() calls after which no activate() fails
UpdateEdgeSlots == 2    \* SpecUpdate: slots of the edge arena
SilenceChannels == 2
MaskMaxChannel == 65
FlagNodeSlots == 4
FlagEdgeSlots == 2
FlagCalls == 4
LimitsNodeSlots == 5    \* SpecLimits: slots of the node arena (the two sentinels included)
DeliverNodeSlots == 4   \* SpecDeliver: slots of the node arena (the two sentinels included)
ResizeNodeSlots == 3    \* SpecResize: slots of the node arena (the two sentinels included)
ResizeMaxPorts == 2     \* SpecResize: largest port count given to set_num_inputs/outputs
ResizeCalls == 3        \* SpecResize: calls made on the graph

None == <<>>

(***************************************************************************)
(* thunderdome::Arena.  An arena is its storage (a sequence of entries,    *)
(* occupied or empty, each with a generation) and its free list (a stack   *)
(* of slots, the head being first_free).                                   *)
(***************************************************************************)
EmptyArena == [storage |-> <<>>, free |-> <<>>]

ArenaContains(a, idx) ==
    /\ idx[1] \in 1..Len(a.storage)
    /\ a.storage[idx[1]].occ
    /\ a.storage[idx[1]].gen = idx[2]

ArenaGet(a, idx) == a.storage[idx[1]].val

\* The index the next insert() returns: the head of the free list with its
\* generation incremented, or a new first-generation slot.
ArenaNextIndex(a) ==
    IF a.free # <<>>
    THEN <<Head(a.free), a.storage[Head(a.free)].gen + 1>>
    ELSE <<Len(a.storage) + 1, 1>>

ArenaInsert(a, v) ==
    LET idx == ArenaNextIndex(a)
        e == [occ |-> TRUE, gen |-> idx[2], val |-> v]
    IN  IF a.free # <<>>
        THEN [storage |-> [a.storage EXCEPT ![idx[1]] = e], free |-> Tail(a.free)]
        ELSE [storage |-> Append(a.storage, e), free |-> <<>>]

\* remove() of an index that is not in the arena (a stale generation
\* included) changes nothing and returns None.
ArenaRemove(a, idx) ==
    IF ArenaContains(a, idx)
    THEN [storage |-> [a.storage EXCEPT ![idx[1]] =
                          [occ |-> FALSE, gen |-> idx[2], val |-> None]],
          free |-> <<idx[1]>> \o a.free]
    ELSE a

ArenaSet(a, idx, v) == [a EXCEPT !.storage[idx[1]].val = v]

\* iter(): the indices of the occupied entries, in slot order.
ArenaIter(a) ==
    LET slots == SelectSeq([s \in 1..Len(a.storage) |-> s], LAMBDA s : a.storage[s].occ)
    IN  [i \in 1..Len(slots) |-> <<slots[i], a.storage[slots[i]].gen>>]

\* The values of the occupied entries, in slot order.
ArenaValues(a) ==
    LET occupied == SelectSeq(a.storage, LAMBDA e : e.occ)
    IN  [i \in 1..Len(occupied) |-> occupied[i].val]

ArenaLen(a) == Cardinality({s \in 1..Len(a.storage) : a.storage[s].occ})

SeqToSet(s) == {s[i] : i \in 1..Len(s)}

(***************************************************************************)
(* AudioGraph::new.  The two sentinels take the first two slots.           *)
(***************************************************************************)
GraphIn == <<1, 1>>
GraphOut == <<2, 1>>

NodeEntry(num_inputs, num_outputs) ==
    [num_inputs |-> num_inputs, num_outputs |-> num_outputs, activated |-> FALSE]

NewGraph(num_graph_inputs, num_graph_outputs) ==
    [nodes |-> ArenaInsert(ArenaInsert(EmptyArena, NodeEntry(0, num_graph_inputs)),
                           NodeEntry(num_graph_outputs, 0)),
     edges |-> EmptyArena,
     connected_input_ports |-> {},
     existing_edges |-> <<>>,
     needs_compile |-> TRUE,
     nodes_to_remove_from_schedule |-> <<>>,
     nodes_to_activate |-> <<GraphIn, GraphOut>>,
     active_nodes_to_remove |-> {}]

EdgeHash(e) == <<e.src_node, e.src_port, e.dst_node, e.dst_port>>

\* The edges of the graph as records, in the order edges.iter() yields them.
EdgeSeq(g) == ArenaValues(g.edges)
EdgeSet(g) == SeqToSet(EdgeSeq(g))
EdgeTuples(g) == {EdgeHash(e) : e \in EdgeSet(g)}
NodeIds(g) == SeqToSet(ArenaIter(g.nodes))

MapRemove(f, k) == [x \in DOMAIN f \ {k} |-> f[x]]
MapInsert(f, k, v) == [x \in DOMAIN f \cup {k} |-> IF x = k THEN v ELSE f[x]]

(***************************************************************************)
(* The compiler (graph/compiler.rs).                                       *)
(***************************************************************************)
\* preprocess(): node.outgoing / node.incoming, filled in edges.iter() order.
Outgoing(g, n) == SelectSeq(EdgeSeq(g), LAMBDA e : e.src_node = n)
Incoming(g, n) == SelectSeq(EdgeSeq(g), LAMBDA e : e.dst_node = n)

\* "assert!(node.num_inputs <= 64); assert!(node.num_outputs <= 64);"
MaxPorts == 64

\* preprocess() asserts that no node has more than 64 inputs or outputs,
\* indexes nodes[edge.src_node.idx] and nodes[edge.dst_node.idx] (a panic
\* when the node is gone) and, in debug builds, asserts that no edge leaves
\* graph_out or enters graph_in.
PreprocessPanics(g) ==
    \/ \E n \in NodeIds(g) :
          \/ ArenaGet(g.nodes, n).num_inputs > MaxPorts
          \/ ArenaGet(g.nodes, n).num_outputs > MaxPorts
    \/ \E e \in EdgeSet(g) :
          \/ ~ArenaContains(g.nodes, e.src_node)
          \/ ~ArenaContains(g.nodes, e.dst_node)
          \/ e.src_node = GraphOut
          \/ e.dst_node = GraphIn

\* "Reduce in-degree of adjacent vertices": one pass over node.outgoing.
RECURSIVE ReduceInDegree(_, _, _)
ReduceInDegree(es, in_degree, queue) ==
    IF es = <<>> THEN [in_degree |-> in_degree, queue |-> queue]
    ELSE LET s == Head(es).dst_node[1]
             d == in_degree[s] - 1
         IN  ReduceInDegree(Tail(es), [in_degree EXCEPT ![s] = d],
                            IF d = 0 THEN Append(queue, Head(es).dst_node) ELSE queue)

\* "BFS traversal": the nodes in the order they are popped from the queue.
RECURSIVE BfsTraversal(_, _, _, _)
BfsTraversal(g, queue, in_degree, visited) ==
    IF queue = <<>> THEN visited
    ELSE LET r == ReduceInDegree(Outgoing(g, Head(queue)), in_degree, Tail(queue))
         IN  BfsTraversal(g, r.queue, r.in_degree, Append(visited, Head(queue)))

\* An in_degree that counts no edge.
InDegree_none(g) == [s \in 1..Len(g.nodes.storage) |-> 0]

\* in_degree, indexed by slot
InDegree(g) ==
    [s \in 1..Len(g.nodes.storage) |->
        Cardinality({e \in EdgeSet(g) : e.dst_node[1] = s})]

\* The vertices with 0 in-degree enqueued in the opposite order.
InitialQueue_reversed(g) ==
    LET q == SelectSeq(ArenaIter(g.nodes), LAMBDA n : Incoming(g, n) = <<>>)
    IN  [i \in 1..Len(q) |-> q[Len(q) + 1 - i]]

\* "Enqueue vertices with 0 in-degree": the nodes whose incoming list is
\* empty, in nodes.iter() order.
InitialQueue(g) == SelectSeq(ArenaIter(g.nodes), LAMBDA n : Incoming(g, n) = <<>>)

\* sort_topologically() without its last test, "if num_visited != nodes.len()".
SortTopologically_unchecked(g) ==
    [order |-> BfsTraversal(g, InitialQueue(g), InDegree(g), <<>>), cycle |-> FALSE]

\* sort_topologically(): the visiting order, and whether every node was visited.
SortTopologically(g) ==
    LET visited == BfsTraversal(g, InitialQueue(g), InDegree(g), <<>>)
    IN  [order |-> visited, cycle |-> Len(visited) # ArenaLen(g.nodes)]

\* A cycle_detected() that finds no cycle.
CycleDetected_never(g) == FALSE

\* cycle_detected(): preprocess, then sort_topologically(false).
CycleDetected(g) == SortTopologically(g).cycle

\* BufferAllocator: free_list is a Vec used as a stack, count the number of
\* buffer indices minted so far.
NewAllocator == [free_list |-> <<>>, count |-> 0]

\* acquire() that mints index `count` without counting it.
Acquire_uncounted(alloc) ==
    LET n == Len(alloc.free_list)
    IN  IF n > 0
        THEN [alloc |-> [alloc EXCEPT !.free_list = SubSeq(@, 1, n - 1)],
              buffer |-> alloc.free_list[n]]
        ELSE [alloc |-> alloc, buffer |-> [idx |-> alloc.count, generation |-> 0]]

\* acquire(): pop the free list, or mint index `count`.
Acquire(alloc) ==
    LET n == Len(alloc.free_list)
    IN  IF n > 0
        THEN [alloc |-> [alloc EXCEPT !.free_list = SubSeq(@, 1, n - 1)],
              buffer |-> alloc.free_list[n]]
        ELSE [alloc |-> [alloc EXCEPT !.count = @ + 1],
              buffer |-> [idx |-> alloc.count, generation |-> 0]]

\* release() that never puts a buffer back.
Release_never(alloc, buffer, strong_count) == alloc

\* release(): the buffer goes back on the free list, one generation older,
\* when the released Rc is the only one left (strong_count is Rc::strong_count).
Release(alloc, buffer, strong_count) ==
    IF strong_count = 1
    THEN [alloc EXCEPT !.free_list =
             Append(@, [idx |-> buffer.idx, generation |-> buffer.generation + 1])]
    ELSE alloc

\* An Rc<BufferRef>: the buffer, and rc, which tells apart the allocations
\* (Rc::new in acquire); the clones of one Rc have the same rc.
NewRc(buffer, rc) == [idx |-> buffer.idx, generation |-> buffer.generation, rc |-> rc]

\* The state of solve_buffer_requirements while it walks the schedule.
NewSolver ==
    [allocator |-> NewAllocator, assignment_table |-> <<>>, rcs |-> 0,
     input_buffers |-> <<>>, output_buffers |-> <<>>, buffers_to_release |-> <<>>,
     schedule |-> <<>>, err |-> None]

\* An input assignment on the buffer with the next index.
InBufferAssignment_shifted(b, should_clear) ==
    [buffer_index |-> b.idx + 1, generation |-> b.generation, should_clear |-> should_clear]

\* An input assignment that is always cleared.
InBufferAssignment_cleared(b, should_clear) ==
    [buffer_index |-> b.idx, generation |-> b.generation, should_clear |-> TRUE]

\* "InBufferAssignment { buffer_index: buffer.idx, generation:
\*  buffer.generation, should_clear }"
InBufferAssignment(b, should_clear) ==
    [buffer_index |-> b.idx, generation |-> b.generation, should_clear |-> should_clear]

\* The loop over the input ports port_idx..num_inputs-1 of node n.
RECURSIVE AssignInputs(_, _, _, _)
AssignInputs(g, n, port_idx, st) ==
    IF st.err # None \/ port_idx >= ArenaGet(g.nodes, n).num_inputs THEN st
    ELSE
      LET edges == SelectSeq(Incoming(g, n), LAMBDA e : e.dst_port = port_idx)
      IN  IF edges = <<>>
          THEN LET a == Acquire(st.allocator)
                   b == NewRc(a.buffer, st.rcs)
               IN  AssignInputs(g, n, port_idx + 1,
                     [st EXCEPT !.allocator = a.alloc, !.rcs = @ + 1,
                        !.input_buffers = Append(@, InBufferAssignment(b, TRUE)),
                        !.buffers_to_release = Append(@, b)])
          ELSE IF Len(edges) = 1
          THEN IF edges[1].id \notin DOMAIN st.assignment_table
               THEN [st EXCEPT !.err = <<"Panic", "No buffer assigned to edge!">>]
               ELSE LET b == st.assignment_table[edges[1].id]
                    IN  AssignInputs(g, n, port_idx + 1,
                          [st EXCEPT
                             !.assignment_table = MapRemove(@, edges[1].id),
                             !.input_buffers = Append(@, InBufferAssignment(b, FALSE)),
                             !.buffers_to_release = Append(@, b)])
          ELSE [st EXCEPT !.err = <<"ManyToOneError", n, port_idx>>]

\* The loop over the output ports port_idx..num_outputs-1 of node n.
RECURSIVE AssignOutputs(_, _, _, _)
AssignOutputs(g, n, port_idx, st) ==
    IF st.err # None \/ port_idx >= ArenaGet(g.nodes, n).num_outputs THEN st
    ELSE
      LET edges == SelectSeq(Outgoing(g, n), LAMBDA e : e.src_port = port_idx)
          a == Acquire(st.allocator)
          b == NewRc(a.buffer, st.rcs)
          out == [buffer_index |-> b.idx, generation |-> b.generation]
      IN  IF edges = <<>>
          THEN AssignOutputs(g, n, port_idx + 1,
                 [st EXCEPT !.allocator = a.alloc, !.rcs = @ + 1,
                    !.output_buffers = Append(@, out),
                    !.buffers_to_release = Append(@, b)])
          ELSE AssignOutputs(g, n, port_idx + 1,
                 [st EXCEPT !.allocator = a.alloc, !.rcs = @ + 1,
                    !.output_buffers = Append(@, out),
                    !.assignment_table =
                        [k \in DOMAIN @ \cup {e.id : e \in SeqToSet(edges)} |->
                            IF k \in {e.id : e \in SeqToSet(edges)} THEN b ELSE @[k]]])

\* "for buffer in buffers_to_release.drain(..) { allocator.release(buffer) }".
\* The Rc being released, the clones still in the drain and the clones in the
\* assignment table are the strong references at that moment.
RECURSIVE ReleaseAll(_, _, _)
ReleaseAll(rel, alloc, table) ==
    IF rel = <<>> THEN alloc
    ELSE LET b == Head(rel)
             strong == 1 + Cardinality({i \in 2..Len(rel) : rel[i].rc = b.rc})
                         + Cardinality({k \in DOMAIN table : table[k].rc = b.rc})
         IN  ReleaseAll(Tail(rel), Release(alloc, b, strong), table)

\* The end of one iteration of "for entry in &mut self.schedule": the buffers
\* of the entry are released and the entry stays in the schedule.
FinishEntry(n, s) ==
    IF s.err # None THEN s
    ELSE [s EXCEPT
            !.allocator =
                ReleaseAll(s.buffers_to_release, s.allocator, s.assignment_table),
            !.schedule = Append(@, [id |-> n,
                                    input_buffers |-> s.input_buffers,
                                    output_buffers |-> s.output_buffers])]

\* One iteration of "for entry in &mut self.schedule".
SolveNode(g, n, st) ==
    FinishEntry(n,
        AssignOutputs(g, n, 0,
            AssignInputs(g, n, 0,
                [st EXCEPT !.input_buffers = <<>>, !.output_buffers = <<>>,
                           !.buffers_to_release = <<>>])))

RECURSIVE SolveFrom(_, _, _)
SolveFrom(g, order, st) ==
    IF order = <<>> \/ st.err # None
    THEN [schedule |-> st.schedule, err |-> st.err,
          max_num_buffers |-> st.allocator.count]
    ELSE SolveFrom(g, Tail(order), SolveNode(g, Head(order), st))

\* solve_buffer_requirements(), over the schedule sort_topologically built.
SolveBufferRequirements(g, order) == SolveFrom(g, order, NewSolver)

\* The `?` on solve_buffer_requirements, then merge(): the error, or the
\* CompiledSchedule.
Merge(solved) ==
    IF solved.err # None
    THEN [status |-> IF solved.err[1] = "Panic" THEN "Panic" ELSE "Err",
          err |-> solved.err]
    ELSE [status |-> "Ok",
          schedule |-> solved.schedule,
          num_buffers |-> solved.max_num_buffers]

\* compiler::compile(): preprocess, sort_topologically(true),
\* solve_buffer_requirements, merge.  The result is Ok with the
\* CompiledSchedule, an Err, or a panic.
CompileInternal(g) ==
    IF PreprocessPanics(g) THEN [status |-> "Panic", err |-> <<"Panic", "preprocess">>]
    ELSE IF SortTopologically(g).cycle
    THEN [status |-> "Err", err |-> <<"CycleDetected">>]
    ELSE Merge(SolveBufferRequirements(g, SortTopologically(g).order))

(***************************************************************************)
(* The mutation API of AudioGraph (graph.rs).  Every operator returns the  *)
(* graph after the call (g) and what the call returned (ret).              *)
(***************************************************************************)
Ok(v) == <<"Ok", v>>
Err(v) == <<"Err", v>>
IsOk(r) == r[1] = "Ok"
IsErr(r) == r[1] = "Err"

AddNode(g, num_inputs, num_outputs) ==
    LET new_id == ArenaNextIndex(g.nodes)
    IN  [g |-> [g EXCEPT !.nodes = ArenaInsert(@, NodeEntry(num_inputs, num_outputs)),
                         !.nodes_to_activate = Append(@, new_id),
                         !.needs_compile = TRUE],
         ret |-> new_id]

\* disconnect_by_edge_id() that does not set needs_compile.
DisconnectByEdgeId_unflagged(g, edge_id) ==
    IF ArenaContains(g.edges, edge_id)
    THEN [g |-> [g EXCEPT !.edges = ArenaRemove(@, edge_id),
                          !.existing_edges =
                              MapRemove(@, EdgeHash(ArenaGet(g.edges, edge_id))),
                          !.connected_input_ports =
                              @ \ {<<ArenaGet(g.edges, edge_id).dst_node,
                                     ArenaGet(g.edges, edge_id).dst_port>>}],
          ret |-> TRUE]
    ELSE [g |-> g, ret |-> FALSE]

\* disconnect_by_edge_id() that leaves the input port marked as connected.
DisconnectByEdgeId_keeping_port(g, edge_id) ==
    IF ArenaContains(g.edges, edge_id)
    THEN [g |-> [g EXCEPT !.edges = ArenaRemove(@, edge_id),
                          !.existing_edges =
                              MapRemove(@, EdgeHash(ArenaGet(g.edges, edge_id))),
                          !.needs_compile = TRUE],
          ret |-> TRUE]
    ELSE [g |-> g, ret |-> FALSE]

DisconnectByEdgeId(g, edge_id) ==
    IF ArenaContains(g.edges, edge_id)
    THEN LET edge == ArenaGet(g.edges, edge_id)
         IN  [g |-> [g EXCEPT !.edges = ArenaRemove(@, edge_id),
                              !.existing_edges = MapRemove(@, EdgeHash(edge)),
                              !.connected_input_ports = @ \ {<<edge.dst_node, edge.dst_port>>},
                              !.needs_compile = TRUE],
              ret |-> TRUE]
    ELSE [g |-> g, ret |-> FALSE]

Disconnect(g, src_node, src_port, dst_node, dst_port) ==
    LET key == <<src_node, src_port, dst_node, dst_port>>
    IN  IF key \in DOMAIN g.existing_edges
        THEN [g |-> DisconnectByEdgeId([g EXCEPT !.existing_edges = MapRemove(@, key)],
                                       g.existing_edges[key]).g,
              ret |-> TRUE]
        ELSE [g |-> g, ret |-> FALSE]

RECURSIVE DisconnectAll(_, _)
DisconnectAll(g, edge_ids) ==
    IF edge_ids = <<>> THEN g
    ELSE DisconnectAll(DisconnectByEdgeId(g, Head(edge_ids)).g, Tail(edge_ids))

RemoveEdgesWithInputPort_none(g, node_id, port_idx) == [g |-> g, ret |-> <<>>]

RemoveEdgesWithInputPort(g, node_id, port_idx) ==
    LET edges_to_remove ==
            SelectSeq(ArenaIter(g.edges), LAMBDA i :
                ArenaGet(g.edges, i).dst_node = node_id
                /\ ArenaGet(g.edges, i).dst_port = port_idx)
    IN  [g |-> DisconnectAll(g, edges_to_remove), ret |-> edges_to_remove]

RemoveEdgesWithOutputPort_none(g, node_id, port_idx) == [g |-> g, ret |-> <<>>]

RemoveEdgesWithOutputPort(g, node_id, port_idx) ==
    LET edges_to_remove ==
            SelectSeq(ArenaIter(g.edges), LAMBDA i :
                ArenaGet(g.edges, i).src_node = node_id
                /\ ArenaGet(g.edges, i).src_port = port_idx)
    IN  [g |-> DisconnectAll(g, edges_to_remove), ret |-> edges_to_remove]

\* "for port_idx in from..to { removed_edges.append(remove_edges_with_input_port) }"
RECURSIVE RemoveInputPorts(_, _, _, _, _)
RemoveInputPorts(g, node_id, from, to, removed) ==
    IF from >= to THEN [g |-> g, ret |-> removed]
    ELSE LET r == RemoveEdgesWithInputPort(g, node_id, from)
         IN  RemoveInputPorts(r.g, node_id, from + 1, to, removed \o r.ret)

RECURSIVE RemoveOutputPorts(_, _, _, _, _)
RemoveOutputPorts(g, node_id, from, to, removed) ==
    IF from >= to THEN [g |-> g, ret |-> removed]
    ELSE LET r == RemoveEdgesWithOutputPort(g, node_id, from)
         IN  RemoveOutputPorts(r.g, node_id, from + 1, to, removed \o r.ret)

RemoveNode(g, node_id) ==
    IF node_id = GraphIn \/ node_id = GraphOut THEN [g |-> g, ret |-> Err(<<>>)]
    ELSE IF ~ArenaContains(g.nodes, node_id) THEN [g |-> g, ret |-> Err(<<>>)]
    ELSE
      LET node_entry == ArenaGet(g.nodes, node_id)
          g1 == [g EXCEPT !.nodes = ArenaRemove(@, node_id)]
          r2 == RemoveInputPorts(g1, node_id, 0, node_entry.num_inputs, <<>>)
          r3 == RemoveOutputPorts(r2.g, node_id, 0, node_entry.num_outputs, r2.ret)
      IN  [g |-> [r3.g EXCEPT
                    !.connected_input_ports =
                        @ \ {<<node_id, p>> : p \in 0..(node_entry.num_inputs - 1)},
                    !.nodes_to_remove_from_schedule = Append(@, node_id),
                    !.active_nodes_to_remove =
                        IF node_entry.activated THEN @ \cup {node_id} ELSE @,
                    !.needs_compile = TRUE],
           ret |-> Ok(r3.ret)]

SetNumInputs(g, node_id, num_inputs) ==
    IF node_id = GraphIn THEN [g |-> g, ret |-> Err(<<>>)]
    ELSE IF ~ArenaContains(g.nodes, node_id) THEN [g |-> g, ret |-> Err(<<>>)]
    ELSE
      LET old_num_inputs == ArenaGet(g.nodes, node_id).num_inputs
          r == RemoveInputPorts(g, node_id, num_inputs, old_num_inputs, <<>>)
      IN  [g |-> [r.g EXCEPT
                    !.connected_input_ports =
                        @ \ {<<node_id, p>> : p \in num_inputs..(old_num_inputs - 1)},
                    !.nodes = ArenaSet(@, node_id,
                        [ArenaGet(@, node_id) EXCEPT !.num_inputs = num_inputs]),
                    !.needs_compile = TRUE],
           ret |-> Ok(r.ret)]

SetNumOutputs(g, node_id, num_outputs) ==
    IF node_id = GraphOut THEN [g |-> g, ret |-> Err(<<>>)]
    ELSE IF ~ArenaContains(g.nodes, node_id) THEN [g |-> g, ret |-> Err(<<>>)]
    ELSE
      LET old_num_outputs == ArenaGet(g.nodes, node_id).num_outputs
          r == RemoveOutputPorts(g, node_id, num_outputs, old_num_outputs, <<>>)
      IN  [g |-> [r.g EXCEPT
                    !.nodes = ArenaSet(@, node_id,
                        [ArenaGet(@, node_id) EXCEPT !.num_outputs = num_outputs]),
                    !.needs_compile = TRUE],
           ret |-> Ok(r.ret)]

\* connect() without the rollback: the edge that closes a cycle stays.
ConnectRollback_none(g, new_edge_id) == g

\* The rollback of connect() when the tentatively inserted edge closes a
\* cycle: "self.edges.remove(new_edge_id.0)".
ConnectRollback(g, new_edge_id) == [g EXCEPT !.edges = ArenaRemove(@, new_edge_id)]

Connect(g, src_node, src_port, dst_node, dst_port, check_for_cycles) ==
    LET key == <<src_node, src_port, dst_node, dst_port>>
        new_edge_id == ArenaNextIndex(g.edges)
        inserted ==
            [g EXCEPT !.connected_input_ports = @ \cup {<<dst_node, dst_port>>},
                      !.edges = ArenaInsert(@, [id |-> new_edge_id,
                                    src_node |-> src_node, src_port |-> src_port,
                                    dst_node |-> dst_node, dst_port |-> dst_port]),
                      !.existing_edges = MapInsert(@, key, new_edge_id)]
    IN  IF ~ArenaContains(g.nodes, src_node)
        THEN [g |-> g, ret |-> Err(<<"SrcNodeNotFound", src_node>>)]
        ELSE IF ~ArenaContains(g.nodes, dst_node)
        THEN [g |-> g, ret |-> Err(<<"DstNodeNotFound", dst_node>>)]
        ELSE IF src_port >= ArenaGet(g.nodes, src_node).num_outputs
        THEN [g |-> g, ret |-> Err(<<"OutPortOutOfRange", src_node, src_port,
                                     ArenaGet(g.nodes, src_node).num_outputs>>)]
        ELSE IF dst_port >= ArenaGet(g.nodes, dst_node).num_inputs
        THEN [g |-> g, ret |-> Err(<<"InPortOutOfRange", dst_node, dst_port,
                                     ArenaGet(g.nodes, dst_node).num_inputs>>)]
        ELSE IF src_node = dst_node
        THEN [g |-> g, ret |-> Err(<<"CycleDetected">>)]
        ELSE IF key \in DOMAIN g.existing_edges
        THEN [g |-> g, ret |-> Err(<<"EdgeAlreadyExists">>)]
        ELSE IF <<dst_node, dst_port>> \in g.connected_input_ports
        THEN [g |-> g, ret |-> Err(<<"InputPortAlreadyConnected", dst_node, dst_port>>)]
        ELSE IF check_for_cycles /\ PreprocessPanics(inserted)
        THEN [g |-> inserted, ret |-> <<"Panic", "preprocess">>]
        ELSE IF check_for_cycles /\ CycleDetected(inserted)
        THEN [g |-> ConnectRollback(inserted, new_edge_id), ret |-> Err(<<"CycleDetected">>)]
        ELSE [g |-> [inserted EXCEPT !.needs_compile = TRUE], ret |-> Ok(new_edge_id)]

RECURSIVE RemoveNodes(_, _)
RemoveNodes(g, node_ids) ==
    IF node_ids = <<>> THEN g
    ELSE RemoveNodes(RemoveNode(g, Head(node_ids)).g, Tail(node_ids))

Reset(g) ==
    [g |-> RemoveNodes(g, SelectSeq(ArenaIter(g.nodes),
                            LAMBDA id : id # GraphIn /\ id # GraphOut)),
     ret |-> <<>>]

(***************************************************************************)
(* AudioGraph::compile: compile_internal, then the activation of the nodes *)
(* in nodes_to_activate.  `fails` is the set of nodes whose activate()     *)
(* returns an error (the node's own code decides).                         *)
(***************************************************************************)
NewProcessor(g, node_id) ==
    [id |-> node_id,
     num_inputs |-> ArenaGet(g.nodes, node_id).num_inputs,
     num_outputs |-> ArenaGet(g.nodes, node_id).num_outputs]

RECURSIVE ActivateNodes(_, _, _, _)
ActivateNodes(g, node_ids, fails, new_node_processors) ==
    IF node_ids = <<>> THEN [err |-> None, processors |-> new_node_processors]
    ELSE IF ~ArenaContains(g.nodes, Head(node_ids))
    THEN ActivateNodes(g, Tail(node_ids), fails, new_node_processors)
    ELSE IF Head(node_ids) \in fails
    THEN [err |-> <<"NodeActivationFailed", Head(node_ids)>>,
          processors |-> new_node_processors]
    ELSE ActivateNodes(g, Tail(node_ids), fails,
                       Append(new_node_processors, NewProcessor(g, Head(node_ids))))

\* CompiledSchedule::new: the buffers are all zeros and no buffer is flagged
\* silent.  A buffer is "zero" or "signal" (some sample is not 0.0); buffer
\* index b is element b + 1.
NewCompiledSchedule(schedule, num_buffers) ==
    [nodes |-> schedule,
     num_buffers |-> num_buffers,
     buffers |-> [b \in 1..num_buffers |-> "zero"],
     buffer_silence_flags |-> [b \in 1..num_buffers |-> FALSE]]

\* ScheduleHeapData::new
NewScheduleHeapData(schedule, nodes_to_remove, new_node_processors) ==
    [schedule |-> schedule,
     nodes_to_remove |-> nodes_to_remove,
     removed_node_processors |-> <<>>,
     new_node_processors |-> new_node_processors]

\* A failed compile() that deactivates no processor.
CompileFailed_undeactivated(g, err, deactivated) ==
    [g |-> g, ret |-> Err(err), deactivated |-> <<>>]

CompileFailed_committed(g, err, deactivated) ==
    [g |-> [g EXCEPT !.needs_compile = FALSE], ret |-> Err(err), deactivated |-> deactivated]

\* compile() returns Err(err), by the `?` after compile_internal or after a
\* failed activate(): the graph is as it was.
CompileFailed(g, err, deactivated) ==
    [g |-> g, ret |-> Err(err), deactivated |-> deactivated]

\* ret is Ok(ScheduleHeapData), Err(CompileGraphError) or a panic;
\* deactivated lists the processors handed to deactivate(Some(processor))
\* when a later activation failed.
Compile(g, fails) ==
    LET c == CompileInternal(g)
        a == ActivateNodes(g, g.nodes_to_activate, fails, <<>>)
    IN  IF c.status = "Panic" THEN [g |-> g, ret |-> c.err, deactivated |-> <<>>]
        ELSE IF c.status = "Err" THEN CompileFailed(g, c.err, <<>>)
        ELSE IF a.err # None THEN CompileFailed(g, a.err, a.processors)
        ELSE [g |-> [g EXCEPT !.needs_compile = FALSE,
                              !.nodes_to_activate = <<>>,
                              !.nodes_to_remove_from_schedule = <<>>],
              ret |-> Ok(NewScheduleHeapData(
                          NewCompiledSchedule(c.schedule, c.num_buffers),
                          g.nodes_to_remove_from_schedule, a.processors)),
              deactivated |-> <<>>]

(***************************************************************************)
(* The calls of the mutation API as actions.  The arguments are drawn from *)
(* the sets a specification passes in; a call whose result would take an   *)
(* arena past the model's bounds is not made.                              *)
(***************************************************************************)
ArenaWithinBounds(a, max_slots, max_gen) ==
    /\ Len(a.storage) <= max_slots
    /\ \A s \in 1..Len(a.storage) : a.storage[s].gen <= max_gen

\* The indices an arena has handed out so far: the live ones and the stale ones.
IssuedIds(a) == UNION {{<<s, gen>> : gen \in 1..a.storage[s].gen} : s \in 1..Len(a.storage)}

\* lim = <<slots of the node arena, generations of a node slot,
\*         slots of the edge arena, generations of an edge slot,
\*         calls made (0: calls are not counted)>>
Call(r, op, lim) ==
    /\ lim[5] = 0 \/ last.n < lim[5]
    /\ ArenaWithinBounds(r.g.nodes, lim[1], lim[2])
    /\ ArenaWithinBounds(r.g.edges, lim[3], lim[4])
    /\ graph' = r.g
    /\ last' = [op |-> op, ret |-> r.ret, n |-> IF lim[5] = 0 THEN 0 ELSE last.n + 1]

DoAddNode(shapes, lim) ==
    \E sh \in shapes : Call(AddNode(graph, sh[1], sh[2]), "add_node", lim)

DoRemoveNode(outcomes, lim) ==
    \E id \in IssuedIds(graph.nodes) :
        LET r == RemoveNode(graph, id)
        IN  r.ret[1] \in outcomes /\ Call(r, "remove_node", lim)

DoSetNumInputs(counts, lim) ==
    \E id \in IssuedIds(graph.nodes), n \in counts :
        LET r == SetNumInputs(graph, id, n) IN Call(r, "set_num_inputs", lim)

DoSetNumOutputs(counts, lim) ==
    \E id \in IssuedIds(graph.nodes), n \in counts :
        LET r == SetNumOutputs(graph, id, n) IN Call(r, "set_num_outputs", lim)

\* `outcomes` are the kinds of result ("Ok", "Err", "Panic") of the calls made.
DoConnect(ports, checks, outcomes, lim) ==
    \E src \in IssuedIds(graph.nodes), dst \in IssuedIds(graph.nodes),
       sp \in ports, dp \in ports, check \in checks :
        LET r == Connect(graph, src, sp, dst, dp, check)
        IN  r.ret[1] \in outcomes /\ Call(r, "connect", lim)

DoDisconnect(ports, lim) ==
    \E src \in IssuedIds(graph.nodes), dst \in IssuedIds(graph.nodes),
       sp \in ports, dp \in ports :
        LET r == Disconnect(graph, src, sp, dst, dp) IN Call(r, "disconnect", lim)

DoDisconnectByEdgeId(outcomes, lim) ==
    \E id \in IssuedIds(graph.edges) :
        LET r == DisconnectByEdgeId(graph, id)
        IN  r.ret \in outcomes /\ Call(r, "disconnect_by_edge_id", lim)

DoReset(lim) == Call(Reset(graph), "reset", lim)

\* AudioGraph::cycle_detected(): the caches it rebuilds are not state, the
\* graph is as it was.  The call panics when preprocess() does.
DoCycleDetected(lim) ==
    Call([g |-> graph,
          ret |-> IF PreprocessPanics(graph) THEN <<"Panic", "preprocess">>
                  ELSE <<"Returned", CycleDetected(graph)>>],
         "cycle_detected", lim)

DoCompile(lim) ==
    LET r == Compile(graph, {}) IN Call([g |-> r.g, ret |-> r.ret], "compile", lim)

\* The context before activate(): InactiveFwCtx.  pc is where the control
\* thread is inside update() or deactivate(); dropped is their local `dropped`.
NoContext == [state |-> "Inactive", pc |-> "idle", dropped |-> FALSE]
\* No FirewheelProcessor exists yet.  nodes is the slab (the indices that hold
\* a node processor) and node_processors are the processors it holds, as
\* activate() made them; serial tells which schedule schedule_data is, panic
\* names the panic that ended the realtime thread.
NoProcessor ==
    [status |-> "none", pc |-> "idle", nodes |-> {}, node_processors |-> {},
     schedule_data |-> None,
     serial |-> 0, running |-> FALSE, panic |-> None,
     frames |-> 0, frames_processed |-> 0, blocks |-> <<>>, output |-> <<>>,
     input |-> <<>>, num_out_channels |-> 0, silence_mask |-> {},
     ret |-> "none"]
\* History: the schedules pushed and received since activate(), whether they were
\* received in push order, the messages destroyed on the realtime thread,
\* the number of activate() calls, and the calls of AudioNode::deactivate
\* made on the control-side nodes.
NoGhost ==
    [pushed |-> 0, received |-> 0, in_order |-> TRUE, rt_destroyed |-> {},
     activations |-> 0, deactivate_calls |-> <<>>]

\* A graph made by AudioGraph::new(config), config drawn from `configs`,
\* and no context activated.
InitWith(configs) ==
    /\ \E c \in configs : graph = NewGraph(c[1], c[2])
    /\ last = [op |-> "new", ret |-> <<>>, n |-> 0]
    /\ cx = NoContext
    /\ to_executor = <<>>
    /\ to_graph = <<>>
    /\ processor = NoProcessor
    /\ ghost = NoGhost


(***************************************************************************)
(* The control context (context.rs) and the realtime processor             *)
(* (processor.rs).  The two rtrb ring buffers are sequences of at most     *)
(* ChannelCapacity messages; every action is one step of one thread that   *)
(* touches the ring buffers at most once in each direction.                *)
(***************************************************************************)
\* rtrb::Producer::push: Err(PushError::Full) when the buffer is full.
RingIsFull(q) == Len(q) >= ChannelCapacity
RingPush(q, msg) == Append(q, msg)
\* A pop that takes the newest message instead.
RingFront_newest(q) == q[Len(q)]
\* rtrb::Consumer::pop: the oldest message.
RingFront(q) == Head(q)
RingPop(q) == Tail(q)

NewScheduleMsg(schedule_data, serial) ==
    [type |-> "NewSchedule", data |-> schedule_data, serial |-> serial]
StopMsg == [type |-> "Stop"]
ReturnScheduleMsg(schedule_data) == [type |-> "ReturnSchedule", data |-> schedule_data]
DroppedMsg(nodes, schedule_data) ==
    [type |-> "Dropped", nodes |-> nodes, schedule_data |-> schedule_data]

\* A call of AudioNode::deactivate on the control-side node node_id, with
\* Some(processor), the node's own processor, or with None.
DeactivateCall(node_id, arg) == <<node_id, arg>>

\* on_schedule_returned(): the loop over removed_node_processors.  The
\* result is the graph and the deactivate calls made, added to `calls`.
RECURSIVE OnScheduleReturnedFrom(_, _, _)
OnScheduleReturnedFrom(g, removed, calls) ==
    IF removed = <<>> THEN [g |-> g, calls |-> calls]
    ELSE LET node_id == Head(removed)
         IN  IF node_id \in g.active_nodes_to_remove
             THEN OnScheduleReturnedFrom(
                     [g EXCEPT !.active_nodes_to_remove = @ \ {node_id}], Tail(removed),
                     Append(calls, DeactivateCall(node_id, "Some")))
             ELSE IF ArenaContains(g.nodes, node_id) /\ ArenaGet(g.nodes, node_id).activated
             THEN OnScheduleReturnedFrom(
                     [g EXCEPT !.nodes = ArenaSet(@, node_id,
                                 [ArenaGet(@, node_id) EXCEPT !.activated = FALSE]),
                               !.nodes_to_activate = Append(@, node_id)],
                     Tail(removed),
                     Append(calls, DeactivateCall(node_id, "Some")))
             ELSE OnScheduleReturnedFrom(g, Tail(removed), calls)

OnScheduleReturned(g, schedule_data) ==
    OnScheduleReturnedFrom(g, schedule_data.removed_node_processors, <<>>)

\* The nodes a loop over the arena deactivates: the activated ones among
\* `ids`, in slot order.
ActivatedAmong(g, ids) ==
    SelectSeq(ArenaIter(g.nodes), LAMBDA n : n \in ids /\ ArenaGet(g.nodes, n).activated)

\* The deactivate(Some(processor)) calls of on_processor_dropped().
OnProcessorDroppedCalls(g, nodes) ==
    [i \in 1..Len(ActivatedAmong(g, nodes)) |->
        DeactivateCall(ActivatedAmong(g, nodes)[i], "Some")]

\* on_processor_dropped(): every node of the slab that the graph still has
\* and that is activated is deactivated.
OnProcessorDropped(g, nodes) ==
    [g EXCEPT !.nodes.storage =
        [s \in DOMAIN @ |->
            IF @[s].occ /\ <<s, @[s].gen>> \in nodes
            THEN [@[s] EXCEPT !.val.activated = FALSE] ELSE @[s]]]

\* The deactivate(None) calls of AudioGraph::deactivate().
DeactivateGraphCalls(g) ==
    [i \in 1..Len(ActivatedAmong(g, NodeIds(g))) |->
        DeactivateCall(ActivatedAmong(g, NodeIds(g))[i], "None")]

DeactivateGraph_keeping(g) ==
    [g EXCEPT !.active_nodes_to_remove = {}, !.needs_compile = TRUE]

\* AudioGraph::deactivate().
DeactivateGraph(g) ==
    [g EXCEPT !.active_nodes_to_remove = {},
              !.nodes_to_remove_from_schedule = <<>>,
              !.needs_compile = TRUE,
              !.nodes.storage =
                  [s \in DOMAIN @ |->
                      IF @[s].occ THEN [@[s] EXCEPT !.val.activated = FALSE] ELSE @[s]],
              !.nodes_to_activate = @ \o ArenaIter(g.nodes)]

\* FirewheelProcessor::new.
NewFirewheelProcessor ==
    [status |-> "alive", pc |-> "idle", nodes |-> {}, node_processors |-> {},
     schedule_data |-> None,
     serial |-> 0, running |-> TRUE, panic |-> None,
     frames |-> 0, frames_processed |-> 0, blocks |-> <<>>, output |-> <<>>,
     input |-> <<>>, num_out_channels |-> 0, silence_mask |-> {},
     ret |-> "none"]

\* The slab FirewheelProcessor.nodes, an Arena used with the graph's indices.
\* insert_at puts the processor in the index's slot and returns what the
\* slot held; remove and the lookup nodes[idx] want the generation to match.
SlabInsertAt(nodes, idx) ==
    [nodes |-> {i \in nodes : i[1] # idx[1]} \cup {idx},
     old |-> {i \in nodes : i[1] = idx[1]}]
SlabRemove(nodes, idx) == nodes \ {idx}

\* InactiveFwCtx::activate(): two new ring buffers and a new processor.  A
\* context is activated again once the processor of its last activation is
\* gone; the history of pushes and receptions starts anew.
Activate ==
    /\ cx.state = "Inactive" /\ cx.pc = "idle"
    /\ ghost.activations < MaxActivations
    /\ processor.status # "alive"
    /\ cx' = [state |-> "Active", pc |-> "idle", dropped |-> FALSE]
    /\ to_executor' = <<>>
    /\ to_graph' = <<>>
    /\ processor' = NewFirewheelProcessor
    /\ ghost' = [NoGhost EXCEPT !.activations = ghost.activations + 1,
                                !.rt_destroyed = ghost.rt_destroyed,
                                !.deactivate_calls = ghost.deactivate_calls]
    /\ last' = [op |-> "activate", ret |-> <<>>, n |-> last.n]
    /\ UNCHANGED graph

\* ActiveFwCtx::update() is entered: update_internal starts draining.
UpdateBegin ==
    /\ cx.state = "Active" /\ cx.pc = "idle"
    /\ cx' = [cx EXCEPT !.pc = "update_internal", !.dropped = FALSE]
    /\ UNCHANGED <<graph, last, to_executor, to_graph, processor, ghost>>

\* update_internal(): one turn of "while let Ok(msg) = from_executor_rx.pop()",
\* inside update() or inside deactivate().
UpdateInternalPop ==
    /\ cx.pc \in {"update_internal", "deactivate_wait"}
    /\ to_graph # <<>>
    /\ to_graph' = RingPop(to_graph)
    /\ LET msg == RingFront(to_graph)
       IN  IF msg.type = "ReturnSchedule"
           THEN /\ graph' = OnScheduleReturned(graph, msg.data).g
                /\ ghost' = [ghost EXCEPT !.deactivate_calls =
                                 @ \o OnScheduleReturned(graph, msg.data).calls]
                /\ UNCHANGED cx
           ELSE /\ graph' = OnProcessorDropped(graph, msg.nodes)
                /\ ghost' = [ghost EXCEPT !.deactivate_calls =
                                 @ \o OnProcessorDroppedCalls(graph, msg.nodes)]
                /\ cx' = [cx EXCEPT !.dropped = TRUE]
    /\ UNCHANGED <<last, to_executor, processor>>

\* update(): update_internal found the ring buffer empty.  A dropped
\* processor deactivates the context; otherwise the graph is compiled if it
\* needs to be.
UpdateInternalDone ==
    /\ cx.pc = "update_internal"
    /\ to_graph = <<>>
    /\ IF cx.dropped
       THEN /\ graph' = DeactivateGraph(graph)
            /\ ghost' = [ghost EXCEPT !.deactivate_calls = @ \o DeactivateGraphCalls(graph)]
            /\ cx' = [state |-> "Inactive", pc |-> "idle", dropped |-> FALSE]
            /\ last' = [op |-> "update", ret |-> <<"Deactivated">>, n |-> last.n]
       ELSE IF graph.needs_compile
       THEN /\ cx' = [cx EXCEPT !.pc = "compile"]
            /\ UNCHANGED <<graph, last, ghost>>
       ELSE /\ cx' = [cx EXCEPT !.pc = "idle"]
            /\ last' = [op |-> "update", ret |-> <<"Ok", "unchanged">>, n |-> last.n]
            /\ UNCHANGED <<graph, ghost>>
    /\ UNCHANGED <<to_executor, to_graph, processor>>

\* update(): graph.compile(), then the push of NewSchedule; on
\* PushError::Full the schedule goes to graph.on_schedule_returned.
UpdateCompile(fail_sets) ==
    /\ cx.pc = "compile"
    /\ cx' = [cx EXCEPT !.pc = "idle"]
    /\ \E fails \in fail_sets :
       LET r == Compile(graph, fails)
       IN  IF ~IsOk(r.ret)
           THEN /\ graph' = r.g
                /\ last' = [op |-> "update",
                            ret |-> IF IsErr(r.ret) THEN <<"GraphError", r.ret>> ELSE r.ret,
                            n |-> last.n]
                /\ ghost' = [ghost EXCEPT !.deactivate_calls = @ \o
                                 [i \in 1..Len(r.deactivated) |->
                                     DeactivateCall(r.deactivated[i].id, "Some")]]
                /\ UNCHANGED to_executor
           ELSE IF RingIsFull(to_executor)
           THEN /\ graph' = OnScheduleReturned(r.g, r.ret[2]).g
                /\ last' = [op |-> "update", ret |-> <<"Ok", "full">>, n |-> last.n]
                /\ ghost' = [ghost EXCEPT !.deactivate_calls =
                                 @ \o OnScheduleReturned(r.g, r.ret[2]).calls]
                /\ UNCHANGED to_executor
           ELSE /\ graph' = r.g
                /\ to_executor' =
                       RingPush(to_executor, NewScheduleMsg(r.ret[2], ghost.pushed + 1))
                /\ ghost' = [ghost EXCEPT !.pushed = @ + 1]
                /\ last' = [op |-> "update", ret |-> <<"Ok", "pushed">>, n |-> last.n]
    /\ UNCHANGED <<to_graph, processor>>

\* deactivate(stream_is_running) is entered.
DeactivateBegin ==
    /\ cx.state = "Active" /\ cx.pc = "idle"
    /\ \E stream_is_running \in BOOLEAN :
          cx' = [cx EXCEPT !.dropped = FALSE,
                           !.pc = IF stream_is_running THEN "deactivate_stop"
                                  ELSE "deactivate_wait"]
    /\ UNCHANGED <<graph, last, to_executor, to_graph, processor, ghost>>

\* deactivate(): the push of Stop succeeds.  (While the ring buffer is full
\* the loop sleeps and tries again.)
DeactivateStop ==
    /\ cx.pc = "deactivate_stop"
    /\ ~RingIsFull(to_executor)
    /\ to_executor' = RingPush(to_executor, StopMsg)
    /\ cx' = [cx EXCEPT !.pc = "deactivate_wait"]
    /\ UNCHANGED <<graph, last, to_graph, processor, ghost>>

\* deactivate() ends: the ring buffer stayed full until CLOSE_STREAM_TIMEOUT,
\* or update_internal found no more messages and the processor was dropped
\* or the timeout was reached.
DeactivateEnd ==
    /\ \/ cx.pc = "deactivate_stop" /\ RingIsFull(to_executor)
       \/ cx.pc = "deactivate_wait" /\ to_graph = <<>>
    /\ graph' = DeactivateGraph(graph)
    /\ ghost' = [ghost EXCEPT !.deactivate_calls = @ \o DeactivateGraphCalls(graph)]
    /\ cx' = [state |-> "Inactive", pc |-> "idle", dropped |-> FALSE]
    /\ last' = [op |-> "deactivate", ret |-> <<cx.dropped>>, n |-> last.n]
    /\ UNCHANGED <<to_executor, to_graph, processor>>

\* A panic on the realtime thread: the callback never returns.
Panicked(p, reason) == [p EXCEPT !.status = "panicked", !.pc = "idle", !.panic = reason]

\* The output buffer of a call is a sequence of runs of frames, each either
\* copied from the graph's output ("processed") or filled with 0.0 ("zero").
ZeroFill(n) == <<[frames |-> n, value |-> "zero"]>>

\* process_interleaved() returns `status` with `output` in the buffer.
Return(p, status, output) ==
    [p EXCEPT !.pc = "idle", !.ret = status, !.output = output]

BlockFrames_whole(frames, frames_processed) == frames - frames_processed

\* "let block_frames = (frames - frames_processed).min(self.max_block_frames)"
BlockFrames(frames, frames_processed) ==
    IF frames - frames_processed < MaxBlockFrames
    THEN frames - frames_processed ELSE MaxBlockFrames

\* util::deinterleave(channels, interleaved, num_interleaved_channels, true):
\* `channels` are the buffer indices of the destination channels, `input`
\* the content of each interleaved channel.  Channel i is marked silent
\* when the destination holds no sample other than 0.0 at the time it is
\* looked at, which is before the input is copied into it.
RECURSIVE Deinterleave(_, _, _, _, _)
Deinterleave(buffers, channels, input, i, silence_mask) ==
    IF i >= Len(channels) THEN [buffers |-> buffers, mask |-> silence_mask]
    ELSE IF i < Len(input)
    THEN Deinterleave([buffers EXCEPT ![channels[i + 1] + 1] = input[i + 1]],
                      channels, input, i + 1,
                      IF i < MaxPorts /\ buffers[channels[i + 1] + 1] = "zero"
                      THEN silence_mask \cup {i} ELSE silence_mask)
    ELSE Deinterleave([buffers EXCEPT ![channels[i + 1] + 1] = "zero"],
                      channels, input, i + 1,
                      IF i < MaxPorts THEN silence_mask \cup {i} ELSE silence_mask)

\* "for i in 0..n { *silence_mask_mut(flags, bufs[i].buffer_index) =
\*  silence_mask.is_channel_silent(i) }"
RECURSIVE SetSilenceFlags(_, _, _, _, _)
SetSilenceFlags(flags, bufs, i, n, silence_mask) ==
    IF i >= n THEN flags
    ELSE SetSilenceFlags([flags EXCEPT ![bufs[i + 1].buffer_index + 1] = i \in silence_mask],
                         bufs, i + 1, n, silence_mask)

\* "for b in bufs.iter().skip(from)": the buffer is filled with 0.0 and
\* flagged silent.
RECURSIVE ClearBuffers(_, _, _)
ClearBuffers(s, bufs, from) ==
    IF from >= Len(bufs) THEN s
    ELSE ClearBuffers(
            [s EXCEPT !.buffers[bufs[from + 1].buffer_index + 1] = "zero",
                      !.buffer_silence_flags[bufs[from + 1].buffer_index + 1] = TRUE],
            bufs, from + 1)

\* CompiledSchedule::prepare_graph_inputs, with the closure that
\* process_interleaved() passes: the input is deinterleaved into the output
\* buffers of the first node of the schedule, and their silence flags are
\* set from the mask deinterleave() returns; the outputs the stream has no
\* channel for are cleared.
PrepareGraphInputs(s, num_stream_inputs, input) ==
    LET graph_in_node == s.nodes[1]
        fill_input_len == IF num_stream_inputs < Len(graph_in_node.output_buffers)
                          THEN num_stream_inputs ELSE Len(graph_in_node.output_buffers)
        d == Deinterleave(s.buffers,
                          [i \in 1..fill_input_len |->
                              graph_in_node.output_buffers[i].buffer_index],
                          input, 0, {})
    IN  ClearBuffers(
            [s EXCEPT !.buffers = d.buffers,
                      !.buffer_silence_flags =
                          SetSilenceFlags(@, graph_in_node.output_buffers, 0,
                                          fill_input_len, d.mask)],
            graph_in_node.output_buffers, fill_input_len)

\* DummyAudioNodeProcessor::process, the processor of graph_in, of graph_out
\* and of the nodes of the model: it writes nothing and leaves
\* out_silence_mask as process_block() made it, NONE_SILENT.
DummyProcess(node_id, in_silence_mask) == {}

\* The loop of process() over the input buffers of one node: a buffer with
\* should_clear is filled with 0.0 and flagged silent.
RECURSIVE ClearInputs(_, _, _)
ClearInputs(s, bufs, i) ==
    IF i >= Len(bufs) THEN s
    ELSE ClearInputs(
            IF bufs[i + 1].should_clear
            THEN [s EXCEPT !.buffers[bufs[i + 1].buffer_index + 1] = "zero",
                           !.buffer_silence_flags[bufs[i + 1].buffer_index + 1] = TRUE]
            ELSE s,
            bufs, i + 1)

\* The mask of the input channels whose buffer is flagged silent.
InSilenceMask(s, bufs) ==
    {i \in 0..(Len(bufs) - 1) : s.buffer_silence_flags[bufs[i + 1].buffer_index + 1]}

\* CompiledSchedule::process, with the closure of process_block(): every
\* node of the schedule, in order, has its inputs cleared where should_clear
\* is set, is processed, and has the silence flags of its output buffers
\* set from the mask its processor returned.
RECURSIVE ScheduleProcess(_, _)
ScheduleProcess(s, k) ==
    IF k > Len(s.nodes) THEN s
    ELSE LET scheduled_node == s.nodes[k]
             cleared == ClearInputs(s, scheduled_node.input_buffers, 0)
             out_silence_mask ==
                 DummyProcess(scheduled_node.id,
                              InSilenceMask(cleared, scheduled_node.input_buffers))
         IN  ScheduleProcess(
                 [cleared EXCEPT !.buffer_silence_flags =
                     SetSilenceFlags(@, scheduled_node.output_buffers, 0,
                                     Len(scheduled_node.output_buffers), out_silence_mask)],
                 k + 1)

\* CompiledSchedule::read_graph_outputs: the silence mask handed to the
\* read_outputs closure, made of the silence flags of the input buffers of
\* the last node of the schedule.
ReadGraphOutputs(s, num_stream_outputs) ==
    LET graph_out_node == s.nodes[Len(s.nodes)]
    IN  {i \in 0..(Len(graph_out_node.input_buffers) - 1) :
            /\ i < num_stream_outputs
            /\ s.buffer_silence_flags[graph_out_node.input_buffers[i + 1].buffer_index + 1]}

\* The top of the loop of process_interleaved(): prepare_graph_inputs on the
\* schedule the processor has now, then process_block(), which starts with
\* poll_messages().
EnterBlock(p) ==
    [p EXCEPT !.pc = "poll_block",
              !.schedule_data.schedule = PrepareGraphInputs(@, Len(p.input), p.input)]

\* process_interleaved(frames) is called.  A processor that is not running
\* fills the output with zeros and returns DropProcessor; poll_messages()
\* runs first when there is no schedule yet; with a schedule and frames = 0
\* the call returns Ok; otherwise the loop over the blocks is entered, and
\* poll_messages() runs at the start of each process_block().  `blocks`
\* lists the sizes of the blocks in which schedule.process ran.  `channels`
\* are the choices of <<input, num_out_channels>>: the content of each
\* input channel ("zero" or "signal", in every block of the call) and the
\* number of output channels.
ProcessInterleaved(frame_counts, channels) ==
    /\ processor.status = "alive" /\ processor.pc = "idle"
    /\ \E frames \in frame_counts, ch \in channels :
        LET called == [processor EXCEPT !.frames = frames, !.frames_processed = 0,
                                        !.blocks = <<>>, !.output = <<>>, !.ret = "none",
                                        !.input = ch[1], !.num_out_channels = ch[2]]
        IN  processor' =
               IF ~processor.running
               THEN Return(called, "DropProcessor", ZeroFill(frames))
               ELSE IF processor.schedule_data = None
               THEN [called EXCEPT !.pc = "poll_first"]
               ELSE IF frames = 0
               THEN Return(called, "Ok", ZeroFill(frames))
               ELSE EnterBlock(called)
    /\ UNCHANGED <<graph, last, cx, to_executor, to_graph, ghost>>

\* "for node_id in new_schedule_data.nodes_to_remove.iter()": the processors
\* taken out of the slab, pushed on old_schedule_data.removed_node_processors.
RECURSIVE RemoveProcessors(_, _, _)
RemoveProcessors(nodes, nodes_to_remove, removed) ==
    IF nodes_to_remove = <<>> THEN [nodes |-> nodes, removed |-> removed]
    ELSE IF Head(nodes_to_remove) \in nodes
    THEN RemoveProcessors(SlabRemove(nodes, Head(nodes_to_remove)), Tail(nodes_to_remove),
                          Append(removed, Head(nodes_to_remove)))
    ELSE RemoveProcessors(nodes, Tail(nodes_to_remove), removed)

\* "for (node_id, processor) in new_node_processors.drain(..)": ok is false
\* when an insert_at found the slot occupied (the assert! fails).
RECURSIVE InsertProcessors(_, _)
InsertProcessors(nodes, new_node_processors) ==
    IF new_node_processors = <<>> THEN [nodes |-> nodes, ok |-> TRUE]
    ELSE LET r == SlabInsertAt(nodes, Head(new_node_processors).id)
         IN  IF r.old # {} THEN [nodes |-> r.nodes, ok |-> FALSE]
             ELSE InsertProcessors(r.nodes, Tail(new_node_processors))

\* The processors in the slab after the removals and insertions that left
\* the indices `nodes` occupied.
SlabProcessors(node_processors, new_node_processors, nodes) ==
    {np \in node_processors \cup SeqToSet(new_node_processors) : np.id \in nodes}

\* poll_messages(), the arm for NewSchedule(new_schedule_data).
PollNewSchedule(msg) ==
    LET new == msg.data
        old == processor.schedule_data
        rem == RemoveProcessors(processor.nodes, new.nodes_to_remove,
                                new.removed_node_processors)
        returned == [old EXCEPT !.removed_node_processors = rem.removed]
        slab == IF old = None THEN processor.nodes ELSE rem.nodes
        ins == InsertProcessors(slab, new.new_node_processors)
        kept == [new EXCEPT !.new_node_processors = <<>>,
                            !.removed_node_processors =
                                IF old = None THEN @ ELSE old.removed_node_processors]
        received == [ghost EXCEPT !.received = @ + 1,
                                  !.in_order = @ /\ msg.serial = ghost.received + 1]
    IN  IF old # None /\ RingIsFull(to_graph)
        THEN /\ processor' = Panicked([processor EXCEPT !.schedule_data = None,
                                                        !.nodes = rem.nodes,
                                                        !.node_processors =
                                                            SlabProcessors(@, <<>>, rem.nodes)],
                                      "ReturnSchedule push failed")
             /\ ghost' = [received EXCEPT !.rt_destroyed = @ \cup {"schedule"}]
             /\ UNCHANGED to_graph
        ELSE /\ to_graph' = IF old = None THEN to_graph
                            ELSE RingPush(to_graph, ReturnScheduleMsg(returned))
             /\ ghost' = received
             /\ processor' =
                    IF ins.ok
                    THEN [processor EXCEPT !.nodes = ins.nodes, !.schedule_data = kept,
                                           !.node_processors =
                                               SlabProcessors(@, new.new_node_processors,
                                                              ins.nodes),
                                           !.serial = msg.serial]
                    ELSE Panicked([processor EXCEPT !.nodes = ins.nodes,
                                                    !.node_processors =
                                                        SlabProcessors(@, new.new_node_processors,
                                                                       ins.nodes),
                                                    !.schedule_data = None],
                                  "insert_at found a processor")

\* poll_messages(): one turn of "while let Ok(msg) = self.from_graph_rx.pop()".
PollMessages ==
    /\ processor.status = "alive" /\ processor.pc \in {"poll_first", "poll_block"}
    /\ to_executor # <<>>
    /\ to_executor' = RingPop(to_executor)
    /\ LET msg == RingFront(to_executor)
       IN  IF msg.type = "NewSchedule"
           THEN PollNewSchedule(msg)
           ELSE /\ processor' = [processor EXCEPT !.running = FALSE]
                /\ UNCHANGED <<to_graph, ghost>>
    /\ UNCHANGED <<graph, last, cx>>

StopRemainder_kept(p) == <<[frames |-> p.frames - p.frames_processed, value |-> "processed"]>>

\* "if !self.running { output[frames_processed * num_out_channels..].fill(0.0) }"
StopRemainder(p) == ZeroFill(p.frames - p.frames_processed)

\* One turn of the loop of process_interleaved() after poll_messages() in
\* process_block(): schedule.process calls self.nodes[node_id.idx] for
\* every node of the schedule, in order; the block is copied to the output
\* and frames_processed advances; the loop goes on while
\* frames_processed < frames.  read_graph_outputs hands the silence mask of
\* the block to the closure that copies the output.
ProcessBlock(p) ==
    LET block_frames == BlockFrames(p.frames, p.frames_processed)
        processed == ScheduleProcess(p.schedule_data.schedule, 1)
        done == [p EXCEPT !.schedule_data.schedule = processed,
                          !.silence_mask = ReadGraphOutputs(processed, p.num_out_channels),
                          !.frames_processed = @ + block_frames,
                          !.blocks = Append(@, block_frames),
                          !.output = Append(@, [frames |-> block_frames,
                                                value |-> "processed"])]
    IN  IF \E i \in 1..Len(p.schedule_data.schedule.nodes) :
               p.schedule_data.schedule.nodes[i].id \notin p.nodes
        THEN Panicked(p, "no processor for a scheduled node")
        ELSE IF done.frames_processed < done.frames
        THEN EnterBlock(done)
        ELSE Return(done, "Ok", done.output)

\* poll_messages() found the ring buffer empty.  The call made before the
\* first schedule returns DropProcessor when Stop was received and Ok when
\* there is still no schedule or no frame is asked for; the call made in
\* process_block() is followed by the block, or, when Stop was received, by
\* the zeroing of the rest of the output and the end of the loop.
PollDone ==
    /\ processor.status = "alive" /\ processor.pc \in {"poll_first", "poll_block"}
    /\ to_executor = <<>>
    /\ processor' =
          IF processor.pc = "poll_first"
          THEN IF ~processor.running
               THEN Return(processor, "DropProcessor", ZeroFill(processor.frames))
               ELSE IF processor.schedule_data = None \/ processor.frames = 0
               THEN Return(processor, "Ok", ZeroFill(processor.frames))
               ELSE EnterBlock(processor)
          ELSE IF ~processor.running
          THEN Return([processor EXCEPT !.silence_mask =
                          ReadGraphOutputs(processor.schedule_data.schedule,
                                           processor.num_out_channels)],
                      "DropProcessor",
                      processor.output \o StopRemainder(processor))
          ELSE ProcessBlock(processor)
    /\ UNCHANGED <<graph, last, cx, to_executor, to_graph, ghost>>

\* Drop for FirewheelProcessor, run by the thread that owns the stream: the
\* slab and the schedule are moved into Dropped; "let _ = push(..)" drops
\* the message there and then when the ring buffer is full.
DropProcessor ==
    /\ processor.status = "alive" /\ processor.pc = "idle"
    /\ processor' = [processor EXCEPT !.status = "dropped", !.nodes = {},
                                      !.node_processors = {},
                                      !.schedule_data = None]
    /\ IF RingIsFull(to_graph)
       THEN /\ ghost' = [ghost EXCEPT !.rt_destroyed = @ \cup {"Dropped"}]
            /\ UNCHANGED to_graph
       ELSE /\ to_graph' = RingPush(to_graph,
                               DroppedMsg(processor.nodes, processor.schedule_data))
            /\ UNCHANGED ghost
    /\ UNCHANGED <<graph, last, cx, to_executor>>

(***************************************************************************)
(* Spec: one activation of the context.  The control thread adds and       *)
(* removes nodes, calls update() and deactivate(); the realtime thread     *)
(* runs callbacks and is dropped.                                          *)
(***************************************************************************)
SpecLim == <<SpecNodeSlots, 1, 0, 1, 0>>
\* The stream has no input channel and no output channel.
NoAudio == {<<<<>>, 0>>}

Init == InitWith({<<0, 2>>})

Next ==
    \/ /\ cx.pc = "idle"
       /\ \/ DoAddNode({<<1, 1>>}, SpecLim)
          \/ DoRemoveNode({"Ok"}, SpecLim)
       /\ UNCHANGED ctxVars
    \/ Activate
    \/ UpdateBegin
    \/ UpdateInternalPop
    \/ UpdateInternalDone
    \/ UpdateCompile({{}})
    \/ DeactivateBegin
    \/ DeactivateStop
    \/ DeactivateEnd
    \/ ProcessInterleaved({1}, NoAudio)
    \/ PollMessages
    \/ PollDone
    \/ DropProcessor

Spec == Init /\ [][Next]_vars

\* The step is one turn of poll_messages() that takes a NewSchedule.
TakesNewSchedule ==
    /\ processor.status = "alive" /\ processor.pc \in {"poll_first", "poll_block"}
    /\ to_executor # <<>> /\ to_executor' = RingPop(to_executor)
    /\ RingFront(to_executor).type = "NewSchedule"
\* The step is the one in which a running processor with a schedule finds
\* the ring buffer empty in process_block() and processes the block.
ProcessesBlock ==
    /\ processor.status = "alive" /\ processor.pc = "poll_block"
    /\ to_executor = <<>> /\ processor.running
    /\ processor' # processor
\* The step is the compile and push of update().
CompilesInUpdate == cx.pc = "compile" /\ cx'.pc = "idle"
\* The NewSchedule messages waiting in the ring buffer, oldest first.
QueuedSchedules == SelectSeq(to_executor, LAMBDA m : m.type = "NewSchedule")

\* C3: whenever the executor processes a block, every node of its current
\* schedule has a processor in the executor's slab.
C3_ScheduledNodesHaveProcessors ==
    [][ProcessesBlock =>
         \A i \in 1..Len(processor.schedule_data.schedule.nodes) :
             processor.schedule_data.schedule.nodes[i].id \in processor.nodes]_vars

\* C4: the realtime thread destroys no schedule and no node processor: what
\* the executor stops owning is enqueued to the control thread.
C4_NothingDestroyedOnRealtimeThread == ghost.rt_destroyed = {}

\* C5: whenever the executor takes a NewSchedule while it has a schedule,
\* the ring buffer to the control thread has a free slot for ReturnSchedule.
C5_ReturnSchedulePushSucceeds ==
    [][(TakesNewSchedule /\ processor.schedule_data # None) => ~RingIsFull(to_graph)]_vars

\* C6: when update() compiles and finds the ring buffer to the executor
\* full, needs_compile is still true and the lists of nodes to activate and
\* of nodes to remove from the schedule are what they were before the compile.
C6_FullQueueRollsBack ==
    [][(CompilesInUpdate /\ IsOk(Compile(graph, {}).ret) /\ RingIsFull(to_executor))
         => /\ graph'.needs_compile
            /\ graph'.nodes_to_activate = graph.nodes_to_activate
            /\ graph'.nodes_to_remove_from_schedule = graph.nodes_to_remove_from_schedule]_vars

DrainsReturnSchedule ==
    /\ cx.pc \in {"update_internal", "deactivate_wait"}
    /\ to_graph # <<>> /\ to_graph' = RingPop(to_graph)
    /\ RingFront(to_graph).type = "ReturnSchedule"
\* The number of deactivate(Some(processor)) calls made on node n.
DeactivatedWithProcessor(calls, n) ==
    Cardinality({i \in 1..Len(calls) : calls[i] = DeactivateCall(n, "Some")})

\* C15: when the control thread has drained the ReturnSchedule that brings
\* back the processor of a removed node, deactivate(Some(processor)) has
\* been called on that node exactly once; and no deactivate(Some(processor))
\* call is made for a node in a step that brings no processor back.
C15_RemovedNodeDeactivatedOnce ==
    [][/\ DrainsReturnSchedule
          => \A i \in 1..Len(RingFront(to_graph).data.removed_node_processors) :
                DeactivatedWithProcessor(ghost'.deactivate_calls,
                    RingFront(to_graph).data.removed_node_processors[i]) = 1
       /\ (ghost'.deactivate_calls # ghost.deactivate_calls
             /\ \E i \in 1..Len(ghost'.deactivate_calls) :
                    ghost'.deactivate_calls[i][2] = "Some")
          => (to_graph # <<>> /\ to_graph' = RingPop(to_graph))]_vars

\* C16: a node is inactive when add_node returns; the nodes whose
\* activate() succeeded in a successful compile of update() are active
\* after it; and every node is inactive after deactivate().
C16_NodeLifecycle ==
    [][/\ last'.op = "add_node" /\ last' # last
          => ~ArenaGet(graph'.nodes, last'.ret).activated
       /\ (CompilesInUpdate /\ IsOk(Compile(graph, {}).ret) /\ ~RingIsFull(to_executor))
          => \A i \in 1..Len(graph.nodes_to_activate) :
                ArenaContains(graph.nodes, graph.nodes_to_activate[i])
                   => ArenaGet(graph'.nodes, graph.nodes_to_activate[i]).activated
       /\ (last'.op = "deactivate" /\ last' # last)
          => \A n \in NodeIds(graph') : ~ArenaGet(graph'.nodes, n).activated]_vars

\* C37: the list of nodes awaiting activation never holds the same NodeID
\* twice, and the executor's assertion that the slab slot of a new processor
\* was vacant never fails.
C37_NoNodeActivatedTwice ==
    /\ \A i, j \in 1..Len(graph.nodes_to_activate) :
           i # j => graph.nodes_to_activate[i] # graph.nodes_to_activate[j]
    /\ processor.panic # "insert_at found a processor"

\* C38: within one block of process_interleaved, the schedule whose graph
\* inputs were prepared is the one that is processed and read: between
\* prepare_graph_inputs and read_graph_outputs the executor's schedule is
\* never replaced.
C38_SameScheduleWithinBlock ==
    [][processor.pc = "poll_block" => processor'.serial = processor.serial]_vars

(***************************************************************************)
(* SpecCompile: graphs built with add_node and connect (no cycle check)    *)
(* and compiled, as the tests of graph/compiler/schedule.rs do.            *)
(***************************************************************************)
CompileLim == <<CompileNodeSlots, 1, CompileEdgeSlots, 1, 0>>

InitCompile == InitWith({<<1, 2>>})

NextCompile ==
    /\ \/ DoAddNode({<<2, 1>>}, CompileLim)
       \/ DoConnect(0..1, {FALSE}, {"Ok"}, CompileLim)
       \/ DoCompile(CompileLim)
    /\ UNCHANGED ctxVars

SpecCompile == InitCompile /\ [][NextCompile]_vars

\* The last call was a compile that returned Ok(schedule_data).
CompiledOk == last.op = "compile" /\ IsOk(last.ret)
\* The ScheduledNodes of that schedule, in schedule order.
Scheduled == last.ret[2].schedule.nodes
\* The buffer indices of a ScheduledNode's assignments, inputs then outputs.
BufferIndices(entry) ==
    [i \in 1..Len(entry.input_buffers) |-> entry.input_buffers[i].buffer_index]
        \o [i \in 1..Len(entry.output_buffers) |-> entry.output_buffers[i].buffer_index]
PairwiseDistinct(seq) == \A i, j \in 1..Len(seq) : i # j => seq[i] # seq[j]
\* The positions of node n in the schedule.
Positions(n) == {i \in 1..Len(Scheduled) : Scheduled[i].id = n}

\* C1: after every successful compile, within each ScheduledNode the buffer
\* indices of its input and output assignments are pairwise distinct.
C1_BuffersPairwiseDistinct ==
    CompiledOk => \A i \in 1..Len(Scheduled) : PairwiseDistinct(BufferIndices(Scheduled[i]))

\* C2: after every successful compile the schedule holds each node of the
\* graph exactly once, and for every edge (u -> v), u comes before v.
C2_TopologicalOrder ==
    CompiledOk =>
        /\ \A i \in 1..Len(Scheduled) : Scheduled[i].id \in NodeIds(graph)
        /\ \A n \in NodeIds(graph) : Cardinality(Positions(n)) = 1
        /\ \A e \in EdgeSet(graph) :
              \A i \in Positions(e.src_node), j \in Positions(e.dst_node) : i < j

\* C2's case: a compiled graph of four nodes in which a node scheduled after
\* another node feeds a node that has two incoming edges.
C2_Witness ==
    /\ CompiledOk
    /\ Len(Scheduled) = 4
    /\ \E e \in EdgeSet(graph), f \in EdgeSet(graph) :
          /\ e.id # f.id /\ e.dst_node = f.dst_node
          /\ e.src_node \notin {GraphIn, GraphOut}
          /\ e.dst_node \notin {GraphIn, GraphOut}
          /\ f.src_node = GraphIn

\* C13: in every compiled schedule the last scheduled node is graph_out,
\* the node read_graph_outputs takes as self.schedule.last().
C13_GraphOutIsLast == CompiledOk => Scheduled[Len(Scheduled)].id = GraphOut

\* C14: in every compiled schedule the first scheduled node is graph_in,
\* the node prepare_graph_inputs takes as self.schedule.first().
C14_GraphInIsFirst == CompiledOk => Scheduled[1].id = GraphIn

\* C14's case: a compiled graph in which graph_in is connected and a node
\* other than graph_in has no incoming edge and feeds another node.
C14_Witness ==
    /\ CompiledOk
    /\ \E e \in EdgeSet(graph) : e.src_node = GraphIn
    /\ \E e \in EdgeSet(graph) :
          /\ e.src_node # GraphIn
          /\ Incoming(graph, e.src_node) = <<>>

\* C29: in every compiled schedule, for every edge of the graph, the
\* buffer index of the edge's source output port in the ScheduledNode of
\* the source equals the buffer index of the edge's destination input port
\* in the ScheduledNode of the destination.
C29_EdgeSharesBuffer ==
    CompiledOk =>
        \A e \in EdgeSet(graph) :
            /\ Positions(e.src_node) # {} /\ Positions(e.dst_node) # {}
            /\ \A i \in Positions(e.src_node), j \in Positions(e.dst_node) :
                  /\ e.src_port < Len(Scheduled[i].output_buffers)
                  /\ e.dst_port < Len(Scheduled[j].input_buffers)
                  /\ Scheduled[i].output_buffers[e.src_port + 1].buffer_index
                        = Scheduled[j].input_buffers[e.dst_port + 1].buffer_index

\* C29's case: a compiled graph in which an edge between two nodes other
\* than the sentinels goes through a buffer that was released and acquired
\* again.
C29_Witness ==
    /\ CompiledOk
    /\ \E e \in EdgeSet(graph) :
          /\ {e.src_node, e.dst_node} \cap {GraphIn, GraphOut} = {}
          /\ \E j \in Positions(e.dst_node) :
                Scheduled[j].input_buffers[e.dst_port + 1].generation > 0

\* C30: in every compiled schedule each ScheduledNode has one input
\* assignment for each of the node's num_inputs input ports and one output
\* assignment for each of its num_outputs output ports, in port order, and
\* input assignment p has should_clear exactly when no edge ends at port p
\* of the node.
C30_AssignmentsPerPort ==
    CompiledOk =>
        \A i \in 1..Len(Scheduled) :
            LET n == Scheduled[i].id
            IN  /\ Len(Scheduled[i].input_buffers) = ArenaGet(graph.nodes, n).num_inputs
                /\ Len(Scheduled[i].output_buffers) = ArenaGet(graph.nodes, n).num_outputs
                /\ \A p \in 0..(Len(Scheduled[i].input_buffers) - 1) :
                      Scheduled[i].input_buffers[p + 1].should_clear
                          <=> ~\E e \in EdgeSet(graph) : e.dst_node = n /\ e.dst_port = p

\* C30's case: a compiled schedule with a node that has one input fed by an
\* edge and one input that is not.
C30_Witness ==
    /\ CompiledOk
    /\ \E i \in 1..Len(Scheduled) :
          /\ Len(Scheduled[i].input_buffers) = 2
          /\ Scheduled[i].input_buffers[1].should_clear
          /\ ~Scheduled[i].input_buffers[2].should_clear

\* The buffer indices that appear in the assignments of the schedule.
UsedBufferIndices ==
    UNION {SeqToSet(BufferIndices(Scheduled[i])) : i \in 1..Len(Scheduled)}

\* C31: in every compiled schedule every buffer index of an input or output
\* assignment is smaller than the number of buffers the schedule allocates,
\* and that number is the number of distinct buffer indices minted during
\* the assignment pass: the indices in use are exactly 0..num_buffers-1.
C31_BufferCountIsHighWaterMark ==
    CompiledOk =>
        /\ \A b \in UsedBufferIndices : b < last.ret[2].schedule.num_buffers
        /\ last.ret[2].schedule.num_buffers = Cardinality(UsedBufferIndices)
        /\ Len(last.ret[2].schedule.buffers) = last.ret[2].schedule.num_buffers

\* C31's case: a compiled schedule of four nodes with more assignments
\* than buffers (released buffers were acquired again).
C31_Witness ==
    /\ CompiledOk
    /\ Len(Scheduled) = 4
    /\ last.ret[2].schedule.num_buffers >= 3
    /\ \E i \in 1..Len(Scheduled) : \E k \in 1..Len(Scheduled[i].input_buffers) :
          Scheduled[i].input_buffers[k].generation > 0

\* The solver of solve_buffer_requirements after the first k nodes of the
\* order.
RECURSIVE SolverAfter(_, _, _)
SolverAfter(g, order, k) ==
    IF k = 0 THEN NewSolver ELSE SolveNode(g, order[k], SolverAfter(g, order, k - 1))

\* Output port p of node n has no outgoing edge.
DeadOutput(g, n, p) == ~\E e \in EdgeSet(g) : e.src_node = n /\ e.src_port = p

\* After the assignment step of the k-th node, the buffer assigned to its
\* output port p is on the allocator's free list.
ReleasedInStep(g, order, k, p) ==
    LET st == SolverAfter(g, order, k)
        free == st.allocator.free_list
    IN  /\ Len(st.schedule) = k
        /\ p < Len(st.schedule[k].output_buffers)
        /\ \E f \in 1..Len(free) :
              free[f].idx = st.schedule[k].output_buffers[p + 1].buffer_index

\* C32: a dead output does not make compile fail (compile fails only for a
\* cycle or an input port with several edges); in the compiled schedule
\* the node is scheduled once, the dead output port has its buffer
\* assignment, and that buffer is on the free list when the node's
\* assignment step ends.
C32_DeadOutputsReleased ==
    last.op = "compile" =>
        IF IsOk(last.ret)
        THEN \A k \in 1..Len(Scheduled) :
                LET n == Scheduled[k].id
                IN  /\ Cardinality(Positions(n)) = 1
                    /\ SortTopologically(graph).order[k] = n
                    /\ \A p \in 0..(ArenaGet(graph.nodes, n).num_outputs - 1) :
                          DeadOutput(graph, n, p) =>
                              ReleasedInStep(graph, SortTopologically(graph).order, k, p)
        ELSE /\ IsErr(last.ret)
             /\ last.ret[2][1] \in {"CycleDetected", "ManyToOneError"}

\* C32's case: a compiled schedule in which the buffer of a dead output of
\* a node is assigned again, one generation later, to the next node.
C32_Witness ==
    /\ CompiledOk
    /\ \E k \in 1..(Len(Scheduled) - 1) :
          \E p \in 1..Len(Scheduled[k].output_buffers) :
             /\ DeadOutput(graph, Scheduled[k].id, p - 1)
             /\ \E q \in 1..Len(Scheduled[k + 1].input_buffers) :
                   /\ Scheduled[k + 1].input_buffers[q].buffer_index
                         = Scheduled[k].output_buffers[p].buffer_index
                   /\ Scheduled[k + 1].input_buffers[q].generation
                         = Scheduled[k].output_buffers[p].generation + 1

\* The ScheduledNode writes buffer b in process(): b is one of its output
\* buffers, or one of its inputs that is cleared.
WritesBuffer(entry, b) ==
    \/ \E o \in 1..Len(entry.output_buffers) : entry.output_buffers[o].buffer_index = b
    \/ \E i \in 1..Len(entry.input_buffers) :
          /\ entry.input_buffers[i].buffer_index = b
          /\ entry.input_buffers[i].should_clear

\* C36: in every compiled schedule, for every edge that ends at graph_out,
\* no node scheduled after graph_out has the edge's buffer as an output or
\* as a cleared input: what read_graph_outputs finds in the buffer after
\* process() is what the edge's source wrote.
C36_GraphOutputIntegrity ==
    CompiledOk =>
        \A e \in EdgeSet(graph) :
            e.dst_node = GraphOut =>
                \A j \in Positions(GraphOut) :
                    \A k \in (j + 1)..Len(Scheduled) :
                        ~WritesBuffer(Scheduled[k],
                            Scheduled[j].input_buffers[e.dst_port + 1].buffer_index)

(***************************************************************************)
(* SpecStore: the graph store under every call of its mutation API, the    *)
(* failing calls included (stale ids, ports out of range, occupied ports,  *)
(* cycles).                                                                *)
(***************************************************************************)
StoreLim == <<StoreNodeSlots, StoreNodeGen, StoreEdgeSlots, StoreEdgeGen, StoreCalls>>
AnyOutcome == {"Ok", "Err", "Panic"}

InitStore == InitWith({<<1, 1>>})

NextStore ==
    /\ \/ DoAddNode({<<1, 1>>}, StoreLim)
       \/ DoRemoveNode(AnyOutcome, StoreLim)
       \/ DoSetNumInputs(0..1, StoreLim)
       \/ DoSetNumOutputs(0..1, StoreLim)
       \/ DoConnect(0..1, BOOLEAN, AnyOutcome, StoreLim)
       \/ DoDisconnect(0..1, StoreLim)
       \/ DoDisconnectByEdgeId(BOOLEAN, StoreLim)
       \/ DoReset(StoreLim)
    /\ UNCHANGED ctxVars

SpecStore == InitStore /\ [][NextStore]_vars

\* C9: a connect that returns an AddEdgeError leaves the audio graph as it
\* was: the edges, the connected input ports, the existing-edge tuples and
\* every other field are the same after the call as before it.
C9_FailedConnectLeavesGraph ==
    [][(last'.op = "connect" /\ IsErr(last'.ret)) => graph' = graph]_vars

\* The edge has a source node and a destination node that exist and differ,
\* and its ports are ports these nodes have.
EdgeWellFormed(g, e) ==
    /\ ArenaContains(g.nodes, e.src_node)
    /\ ArenaContains(g.nodes, e.dst_node)
    /\ e.src_node # e.dst_node
    /\ e.src_port < ArenaGet(g.nodes, e.src_node).num_outputs
    /\ e.dst_port < ArenaGet(g.nodes, e.dst_node).num_inputs

\* C21: after every sequence of mutations every edge of the graph is
\* well-formed: both its nodes exist and differ, src_port <
\* src_node.num_outputs and dst_port < dst_node.num_inputs.
C21_EdgesWellFormed == \A e \in EdgeSet(graph) : EdgeWellFormed(graph, e)

C21_Witness ==
    /\ last.op \in {"remove_node", "set_num_inputs", "set_num_outputs"}
    /\ IsOk(last.ret) /\ last.ret[2] # <<>>
    /\ EdgeSet(graph) # {}

\* C22: every call leaves graph_in and graph_out in the graph with the
\* numbers of inputs and outputs they had before it (graph_in 0 inputs,
\* graph_out 0 outputs); a remove_node that returns Ok has removed neither;
\* and after reset() the nodes are exactly the two sentinels.
C22_SentinelsFixed ==
    [][/\ ArenaContains(graph'.nodes, GraphIn)
       /\ ArenaContains(graph'.nodes, GraphOut)
       /\ ArenaGet(graph'.nodes, GraphIn).num_inputs = 0
       /\ ArenaGet(graph'.nodes, GraphOut).num_outputs = 0
       /\ ArenaGet(graph'.nodes, GraphIn).num_outputs
             = ArenaGet(graph.nodes, GraphIn).num_outputs
       /\ ArenaGet(graph'.nodes, GraphOut).num_inputs
             = ArenaGet(graph.nodes, GraphOut).num_inputs
       /\ last'.op = "reset" => NodeIds(graph') = {GraphIn, GraphOut}]_vars

\* The edges of g that start or end at the node.
EdgesTouching(g, node_id) ==
    {e \in EdgeSet(g) : e.src_node = node_id \/ e.dst_node = node_id}

\* The input port can be connected: no connect to it from a port of a node
\* of g is refused because the port is occupied or the edge recorded.
CanConnectInput(g, dst_node, dst_port) ==
    \A src \in NodeIds(g) \ {dst_node, GraphOut} :
        \A sp \in 0..(ArenaGet(g.nodes, src).num_outputs - 1) :
            LET r == Connect(g, src, sp, dst_node, dst_port, FALSE)
            IN  IsErr(r.ret) => r.ret[2][1] \notin {"InputPortAlreadyConnected",
                                                     "EdgeAlreadyExists"}

\* What remove_node(node_id) returning Ok(removed_edges) has made of g in h.
RemovedFrom(g, h, node_id, removed_edges) ==
    /\ NodeIds(h) = NodeIds(g) \ {node_id}
    /\ Cardinality(NodeIds(h)) = Cardinality(NodeIds(g)) - 1
    /\ EdgeSet(h) = EdgeSet(g) \ EdgesTouching(g, node_id)
    /\ {removed_edges[i] : i \in DOMAIN removed_edges}
          = {e.id : e \in EdgesTouching(g, node_id)}
    /\ Len(removed_edges) = Cardinality(EdgesTouching(g, node_id))
    /\ \A e \in EdgesTouching(g, node_id) :
          e.dst_node # node_id => CanConnectInput(h, e.dst_node, e.dst_port)

\* C24: a remove_node that returns Ok has removed one existing node other
\* than the sentinels, and with it exactly the edges that started or ended
\* at it, whose ids it returns; the node count is one less (what add_node
\* had added); the input ports the node fed can be connected again.  A
\* remove_node that returns an error leaves the graph as it was.
C24_RemoveNodeRemovesEdges ==
    [][last'.op = "remove_node" =>
         IF IsOk(last'.ret)
         THEN \E id \in NodeIds(graph) \ {GraphIn, GraphOut} :
                  RemovedFrom(graph, graph', id, last'.ret[2])
         ELSE graph' = graph]_vars

C24_Witness ==
    /\ last.op = "remove_node" /\ IsOk(last.ret) /\ Len(last.ret[2]) = 2
    /\ Cardinality(NodeIds(graph)) > 2

\* The outcome of a connect: Ok, the panic, or the AddEdgeError it returned.
ConnectOutcome(ret) ==
    IF IsOk(ret) THEN "Ok" ELSE IF IsErr(ret) THEN ret[2][1] ELSE "Panic"

\* Every connect has the same outcome on g and on h.
SameConnects(g, h) ==
    \A src \in IssuedIds(g.nodes), dst \in IssuedIds(g.nodes),
       sp \in 0..1, dp \in 0..1, check \in BOOLEAN :
        ConnectOutcome(Connect(g, src, sp, dst, dp, check).ret)
            = ConnectOutcome(Connect(h, src, sp, dst, dp, check).ret)

\* g is the graph before a connect that returned Ok(edge_id) and left c.
RoundTrip(g, c, edge_id) ==
    LET d == DisconnectByEdgeId(c, edge_id)
    IN  /\ d.ret = TRUE
        /\ EdgeSet(d.g) = EdgeSet(g)
        /\ SameConnects(g, d.g)
        /\ DisconnectByEdgeId(d.g, edge_id) = [g |-> d.g, ret |-> FALSE]

\* C25: in every state of the graph, a connect that returns Ok(e) followed
\* by disconnect_by_edge_id(e) is a round trip: the disconnect returns
\* true, the edge set is the one before the connect, every connect made
\* next has the outcome it would have had before, and a second
\* disconnect_by_edge_id(e) returns false and changes nothing.
C25_ConnectDisconnectRoundTrip ==
    \A src \in NodeIds(graph), dst \in NodeIds(graph),
       sp \in 0..1, dp \in 0..1, check \in BOOLEAN :
        LET r == Connect(graph, src, sp, dst, dp, check)
        IN  IsOk(r.ret) => RoundTrip(graph, r.g, r.ret[2])

\* A connect has been undone by disconnect_by_edge_id, and the next
\* connect, which reuses the slot of the edge, succeeds.
C25_Witness ==
    /\ last.op = "disconnect_by_edge_id" /\ last.ret = TRUE
    /\ \E src \in NodeIds(graph), dst \in NodeIds(graph) :
          LET r == Connect(graph, src, 0, dst, 0, TRUE)
          IN  IsOk(r.ret) /\ r.ret[2][2] = 2 /\ RoundTrip(graph, r.g, r.ret[2])

\* C26: whatever mutations came before, the failed connects included, a
\* disconnect that returns true has removed one edge that was in the graph
\* (the one with the 4-tuple of the call), and a disconnect that returns
\* false has left the graph as it was.
C26_DisconnectReturnsWhetherRemoved ==
    [][last'.op = "disconnect" =>
         IF last'.ret
         THEN \E e \in EdgeSet(graph) : EdgeSet(graph') = EdgeSet(graph) \ {e}
         ELSE graph' = graph]_vars

(***************************************************************************)
(* SpecChain: chains of nodes with one input and one output, connected     *)
(* with and without cycle checking, and compiled.                          *)
(***************************************************************************)
ChainLim == <<ChainNodeSlots, 1, ChainEdgeSlots, 1, 0>>

InitChain == InitWith({<<0, 2>>})

NextChain ==
    /\ \/ DoAddNode({<<1, 1>>}, ChainLim)
       \/ DoConnect({0}, BOOLEAN, AnyOutcome, ChainLim)
       \/ DoCompile(ChainLim)
    /\ UNCHANGED ctxVars

SpecChain == InitChain /\ [][NextChain]_vars

\* The edges of g are exactly the chain a -> b -> c, port 0 to port 0.
IsChain(g, a, b, c) ==
    /\ a # b /\ b # c /\ a # c
    /\ {a, b, c} \cap {GraphIn, GraphOut} = {}
    /\ {a, b, c} \subseteq NodeIds(g)
    /\ EdgeTuples(g) = {<<a, 0, b, 0>>, <<b, 0, c, 0>>}
\* The chain a -> b -> c as add_node and successful connects leave it: the
\* store's records hold the two chain edges and nothing else.
ChainBuilt(g, a, b, c) ==
    /\ IsChain(g, a, b, c)
    /\ DOMAIN g.existing_edges = EdgeTuples(g)
    /\ g.connected_input_ports = {<<b, 0>>, <<c, 0>>}
\* Position of node n in a compiled schedule's node list.
PositionIn(nodes, n) == CHOOSE i \in 1..Len(nodes) : nodes[i].id = n
\* compile() on g succeeds and schedules a before b before c.
CompilesInOrder(g, a, b, c) ==
    LET r == Compile(g, {})
    IN  /\ IsOk(r.ret)
        /\ \A n \in {a, b, c} : \E i \in 1..Len(r.ret[2].schedule.nodes) :
              r.ret[2].schedule.nodes[i].id = n
        /\ PositionIn(r.ret[2].schedule.nodes, a) < PositionIn(r.ret[2].schedule.nodes, b)
        /\ PositionIn(r.ret[2].schedule.nodes, b) < PositionIn(r.ret[2].schedule.nodes, c)

\* C10: on the chain a -> b -> c, connect(c, 0, a, 0, check_for_cycles = true)
\* returns CycleDetected and leaves exactly the two chain edges, and the
\* compile that follows succeeds with a before b before c.
C10_CycleRejected ==
    [][/\ (last'.op = "connect" /\ ArenaLen(graph.edges) = 2) =>
            \A a, b, c \in NodeIds(graph) :
                ChainBuilt(graph, a, b, c) =>
                    LET r == Connect(graph, c, 0, a, 0, TRUE)
                    IN  (last'.ret = r.ret /\ graph' = r.g)
                        => /\ last'.ret = Err(<<"CycleDetected">>)
                           /\ IsChain(graph', a, b, c)
                           /\ CompilesInOrder(graph', a, b, c)
       /\ (last'.op = "compile" /\ ArenaLen(graph.edges) = 2) =>
            \A a, b, c \in NodeIds(graph) :
                (IsChain(graph, a, b, c) /\ <<c, 0, a, 0>> \in DOMAIN graph.existing_edges)
                => /\ IsOk(last'.ret)
                   /\ PositionIn(last'.ret[2].schedule.nodes, a)
                        < PositionIn(last'.ret[2].schedule.nodes, b)
                   /\ PositionIn(last'.ret[2].schedule.nodes, b)
                        < PositionIn(last'.ret[2].schedule.nodes, c)]_vars

\* C10's case: the chain was built, the connect from its end to its start
\* was refused (its tuple was recorded), and the graph was compiled.
C10_Witness ==
    /\ last.op = "compile" /\ IsOk(last.ret)
    /\ \E a, b, c \in NodeIds(graph) :
          /\ IsChain(graph, a, b, c)
          /\ <<c, 0, a, 0>> \in DOMAIN graph.existing_edges

(***************************************************************************)
(* SpecPorts: input ports connected, refused, removed with set_num_inputs  *)
(* and connected again.                                                    *)
(***************************************************************************)
PortsLim == <<PortsNodeSlots, 1, PortsEdgeSlots, PortsEdgeGen, 0>>

InitPorts == InitWith({<<1, 1>>})

NextPorts ==
    /\ \/ DoAddNode({<<1, 1>>}, PortsLim)
       \/ DoSetNumInputs(0..1, PortsLim)
       \/ DoConnect({0}, BOOLEAN, AnyOutcome, PortsLim)
    /\ UNCHANGED ctxVars

SpecPorts == InitPorts /\ [][NextPorts]_vars

\* No two edges end at the same (dst_node, dst_port).
InputPortsUnique(g) ==
    \A e, f \in EdgeSet(g) :
        (e.dst_node = f.dst_node /\ e.dst_port = f.dst_port) => e.id = f.id
\* connect(src_node, src_port, dst_node, dst_port) names two different live
\* nodes and ports they have, and the input port already has an edge from
\* another source port.
ConnectsToOccupiedPort(g, src_node, src_port, dst_node, dst_port) ==
    /\ ArenaContains(g.nodes, src_node) /\ ArenaContains(g.nodes, dst_node)
    /\ src_node # dst_node
    /\ src_port < ArenaGet(g.nodes, src_node).num_outputs
    /\ dst_port < ArenaGet(g.nodes, dst_node).num_inputs
    /\ \E e \in EdgeSet(g) :
          /\ e.dst_node = dst_node /\ e.dst_port = dst_port
          /\ <<e.src_node, e.src_port>> # <<src_node, src_port>>

\* C8: after every call no two edges end at the same input port, and a
\* connect to an input port that has an edge from another source port
\* returns InputPortAlreadyConnected(dst_node, dst_port) and adds no edge.
C8_InputPortUniqueness ==
    [][/\ InputPortsUnique(graph')
       /\ \A src \in NodeIds(graph), dst \in NodeIds(graph), check \in BOOLEAN :
            LET r == Connect(graph, src, 0, dst, 0, check)
            IN  (/\ ConnectsToOccupiedPort(graph, src, 0, dst, 0)
                 /\ last'.op = "connect" /\ last'.ret = r.ret /\ graph' = r.g)
                => /\ last'.ret = Err(<<"InputPortAlreadyConnected", dst, 0>>)
                   /\ EdgeSet(graph') = EdgeSet(graph)]_vars

(***************************************************************************)
(* SpecCycle: graphs of up to three nodes connected with and without cycle *)
(* checking, disconnected, and asked whether they hold a cycle.            *)
(***************************************************************************)
CycleLim == <<CycleNodeSlots, 1, CycleEdgeSlots, CycleEdgeGen, 0>>

InitCycle == InitWith({<<1, 1>>})

NextCycle ==
    /\ \/ DoAddNode({<<1, 1>>}, CycleLim)
       \/ DoConnect({0}, BOOLEAN, AnyOutcome, CycleLim)
       \/ DoDisconnect({0}, CycleLim)
       \/ DoCycleDetected(CycleLim)
    /\ UNCHANGED ctxVars

SpecCycle == InitCycle /\ [][NextCycle]_vars

\* The reference test: the nodes that the edges of g lead to from the set S
\* in one step, the nodes reachable from S, and whether some node is
\* reachable from itself along one edge or more.
Successors(g, S) == {e.dst_node : e \in {f \in EdgeSet(g) : f.src_node \in S}}
RECURSIVE Reachable(_, _)
Reachable(g, S) ==
    IF Successors(g, S) \subseteq S THEN S ELSE Reachable(g, S \cup Successors(g, S))
HasCycle(g) == \E n \in NodeIds(g) : n \in Reachable(g, Successors(g, {n}))

C12_CycleDetectedIsExact ==
    [][last'.op = "cycle_detected" =>
         /\ last'.ret = <<"Returned", HasCycle(graph)>>
         /\ graph' = graph]_vars

\* C12's case: cycle_detected() returned true on a cycle through three
\* nodes, all of its edges made without cycle checking.
C12_Witness ==
    /\ last.op = "cycle_detected" /\ last.ret = <<"Returned", TRUE>>
    /\ \E a, b, c \in NodeIds(graph) :
          /\ a # b /\ b # c /\ a # c
          /\ {<<a, 0, b, 0>>, <<b, 0, c, 0>>, <<c, 0, a, 0>>} \subseteq EdgeTuples(graph)

(***************************************************************************)
(* SpecCallback: one activation of a context whose graph is not changed.   *)
(* The control thread calls update() and deactivate(); the stream calls    *)
(* process_interleaved() with a number of frames from FrameCounts, and     *)
(* drops the processor.                                                    *)
(***************************************************************************)
FrameCounts == {0, 1, MaxBlockFrames, MaxBlockFrames + 1, 500}

InitCallback == InitWith({<<0, 2>>})

NextCallback ==
    \/ Activate
    \/ UpdateBegin
    \/ UpdateInternalPop
    \/ UpdateInternalDone
    \/ UpdateCompile({{}})
    \/ DeactivateBegin
    \/ DeactivateStop
    \/ DeactivateEnd
    \/ ProcessInterleaved(FrameCounts, NoAudio)
    \/ PollMessages
    \/ PollDone
    \/ DropProcessor

SpecCallback == InitCallback /\ [][NextCallback]_vars

RECURSIVE SumSeq(_)
SumSeq(q) == IF q = <<>> THEN 0 ELSE Head(q) + SumSeq(Tail(q))
\* The output of a call whose blocks `blocks` were processed and whose
\* remaining frames were zeroed.
ProcessedThenZero(blocks, frames) ==
    [i \in 1..Len(blocks) |-> [frames |-> blocks[i], value |-> "processed"]]
        \o ZeroFill(frames - SumSeq(blocks))
\* The executor has handled a Stop message.
StopHandled == processor.status = "alive" /\ ~processor.running

\* C17: once the executor has handled Stop it stays stopped; the call in
\* which Stop was handled and every later call returns DropProcessor; no
\* block is processed after Stop was handled; and the output of such a call
\* is the blocks processed before Stop was handled followed by zeros.
C17_StopZeroesAndDrops ==
    [][/\ (StopHandled /\ processor'.status = "alive") => ~processor'.running
       /\ StopHandled => Len(processor'.blocks) <= Len(processor.blocks)
       /\ (processor'.status = "alive" /\ ~processor'.running /\ processor'.pc = "idle")
          => /\ processor'.ret = "DropProcessor"
             /\ processor'.output = ProcessedThenZero(processor'.blocks, processor'.frames)
             /\ SumSeq(processor'.blocks) <= processor'.frames]_vars

C17_Witness ==
    /\ StopHandled /\ processor.pc = "idle"
    /\ processor.frames = 500
    /\ Len(processor.blocks) = 2
    /\ processor.ret = "DropProcessor"

\* The smaller of two numbers.
Min(a, b) == IF a < b THEN a ELSE b
\* The processor has returned from a call in which it ran the loop over the
\* blocks to its end.
LoopFinished ==
    /\ processor.status = "alive" /\ processor.pc = "idle"
    /\ processor.running /\ processor.ret = "Ok" /\ processor.blocks # <<>>

\* C18: the blocks of a call are consecutive, block i having
\* min(frames - (frames already processed), max_block_frames) frames, at
\* least one and at most max_block_frames; a step that processes a block
\* advances frames_processed; a call that ran the loop to its end returns Ok
\* with blocks that sum to frames and an output made of these blocks; frames
\* = 500 with max_block_frames = 128 gives the blocks 128, 128, 128, 116;
\* and a call with a schedule and frames = 0 processes no block, zeroes the
\* output and returns Ok.
C18_BlocksCoverFrames ==
    [][/\ processor'.status = "alive"
          => /\ \A i \in 1..Len(processor'.blocks) :
                   /\ processor'.blocks[i] =
                         Min(processor'.frames - SumSeq(SubSeq(processor'.blocks, 1, i - 1)),
                             MaxBlockFrames)
                   /\ processor'.blocks[i] >= 1
                   /\ processor'.blocks[i] <= MaxBlockFrames
             /\ processor'.frames_processed = SumSeq(processor'.blocks)
             /\ processor'.frames_processed <= processor'.frames
       /\ (ProcessesBlock /\ processor'.status = "alive")
          => /\ processor'.frames_processed > processor.frames_processed
             /\ Len(processor'.blocks) = Len(processor.blocks) + 1
       /\ (ProcessesBlock /\ processor'.status = "alive" /\ processor'.pc = "poll_block")
          => processor'.frames_processed < processor'.frames
       /\ LoopFinished'
          => /\ SumSeq(processor'.blocks) = processor'.frames
             /\ processor'.output =
                    [i \in 1..Len(processor'.blocks) |->
                        [frames |-> processor'.blocks[i], value |-> "processed"]]
             /\ (MaxBlockFrames = 128 /\ processor'.frames = 500)
                   => processor'.blocks = <<128, 128, 128, 116>>
       /\ (processor'.status = "alive" /\ processor'.pc = "idle" /\ processor'.running
             /\ processor'.ret # "none" /\ processor'.frames = 0)
          => /\ processor'.ret = "Ok"
             /\ processor'.blocks = <<>>
             /\ processor'.output = ZeroFill(0)]_vars

C18_Witness ==
    /\ LoopFinished
    /\ processor.frames = 500
    /\ Len(processor.blocks) = 4
    /\ processor.blocks[4] < MaxBlockFrames

(***************************************************************************)
(* SpecUpdate: one activation of a context whose graph gets nodes and      *)
(* unchecked edges, so that a compile of update() can fail with a cycle,   *)
(* and whose nodes may fail to activate.                                   *)
(***************************************************************************)
UpdateLim == <<UpdateNodeSlots, 1, UpdateEdgeSlots, 1, 0>>

\* The choices of the nodes' activate(): all succeed, or one node fails.
FailSets ==
    IF Len(ghost.deactivate_calls) < UpdateDeactivateCalls
    THEN {{}} \cup {{n} : n \in NodeIds(graph)}
    ELSE {{}}

InitUpdate == InitWith({<<1, 1>>})

NextUpdate ==
    \/ /\ cx.pc = "idle"
       /\ \/ DoAddNode({<<1, 1>>}, UpdateLim)
          \/ DoConnect({0}, {FALSE}, {"Ok"}, UpdateLim)
       /\ UNCHANGED ctxVars
    \/ Activate
    \/ UpdateBegin
    \/ UpdateInternalPop
    \/ UpdateInternalDone
    \/ UpdateCompile(FailSets)
    \/ ProcessInterleaved({1}, NoAudio)
    \/ PollMessages
    \/ PollDone

SpecUpdate == InitUpdate /\ [][NextUpdate]_vars

\* The step is a compile of update() that failed.
CompileFailsInUpdate ==
    /\ CompilesInUpdate
    /\ last'.op = "update" /\ last'.ret[1] = "GraphError"

\* C19: a compile of update() on a graph with a cycle fails; when the
\* compile of update() fails, update() returns GraphError with the error,
\* CycleDetected or NodeActivationFailed; nothing is pushed to the executor;
\* the graph is as it was, with needs_compile true; and the executor, its
\* schedule included, is as it was.
C19_FailedCompileKeepsSchedule ==
    [][/\ (CompilesInUpdate /\ HasCycle(graph))
          => last'.ret = <<"GraphError", Err(<<"CycleDetected">>)>>
       /\ CompileFailsInUpdate
          => /\ IsErr(last'.ret[2])
             /\ last'.ret[2][2][1] \in {"CycleDetected", "NodeActivationFailed"}
             /\ to_executor' = to_executor
             /\ graph' = graph
             /\ graph'.needs_compile
             /\ processor' = processor
             /\ to_graph' = to_graph]_vars

C19_Witness ==
    /\ last.op = "update"
    /\ last.ret = <<"GraphError", Err(<<"CycleDetected">>)>>
    /\ processor.status = "alive" /\ processor.schedule_data # None
    /\ processor.ret = "Ok"
    /\ graph.needs_compile

\* The step is a compile of update() in which the activate() of a node failed.
ActivationFailsInUpdate ==
    /\ CompileFailsInUpdate
    /\ last'.ret[2][2][1] = "NodeActivationFailed"

\* The entries of nodes_to_activate before the first entry of `failed` that
\* are nodes of the graph: the nodes activated before `failed` was tried.
ActivatedBefore(g, failed) ==
    LET first == CHOOSE i \in 1..Len(g.nodes_to_activate) :
                    /\ g.nodes_to_activate[i] = failed
                    /\ \A j \in 1..(i - 1) : g.nodes_to_activate[j] # failed
    IN  SelectSeq(SubSeq(g.nodes_to_activate, 1, first - 1),
                  LAMBDA n : ArenaContains(g.nodes, n))

\* C33: when the activate() of a node fails in the compile of update(), the
\* error is NodeActivationFailed with that node, which was awaiting
\* activation; each node activated before it in the pass has deactivate
\* called once, and no other call is made; nothing is pushed to the
\* executor, which is as it was; needs_compile stays set and the nodes
\* awaiting activation are the same, so that the next compile activates
\* them all again.
C33_FailedActivationRollsBack ==
    [][ActivationFailsInUpdate =>
         LET failed == last'.ret[2][2][2]
         IN  /\ \E i \in 1..Len(graph.nodes_to_activate) :
                   graph.nodes_to_activate[i] = failed
             /\ ghost'.deactivate_calls = ghost.deactivate_calls \o
                   [i \in 1..Len(ActivatedBefore(graph, failed)) |->
                       DeactivateCall(ActivatedBefore(graph, failed)[i], "Some")]
             /\ to_executor' = to_executor
             /\ processor' = processor
             /\ graph'.needs_compile /\ graph.needs_compile
             /\ graph'.nodes_to_activate = graph.nodes_to_activate
             /\ IsOk(Compile(graph', {}).ret) =>
                   \A i \in 1..Len(graph.nodes_to_activate) :
                      ArenaContains(graph.nodes, graph.nodes_to_activate[i]) =>
                         \E k \in 1..Len(Compile(graph', {}).ret[2].new_node_processors) :
                            Compile(graph', {}).ret[2].new_node_processors[k].id
                               = graph.nodes_to_activate[i]]_vars

\* C33's case: update() has returned NodeActivationFailed after two nodes
\* had been activated and deactivated again.
C33_Witness ==
    /\ last.op = "update" /\ last.ret[1] = "GraphError"
    /\ last.ret[2][2][1] = "NodeActivationFailed"
    /\ Len(ghost.deactivate_calls) >= 2
    /\ graph.needs_compile

(***************************************************************************)
(* SpecDeactivate: one activation of a context whose graph was built       *)
(* before, with the scheduling of the control thread inside deactivate().  *)
(* The thread runs its loops without being blocked: a push of Stop that    *)
(* can succeed is made, a message that can be popped is popped, and, time  *)
(* advancing, the loop that finds nothing more to pop ends, by Dropped or  *)
(* by CLOSE_STREAM_TIMEOUT.                                                *)
(***************************************************************************)
\* The graphs built on the inactive context: nothing added, one or two
\* nodes added, and one of them removed again.
BuiltGraphs ==
    LET g0 == NewGraph(0, 2)
        g1 == AddNode(g0, 1, 1).g
        g2 == AddNode(g1, 1, 1).g
    IN  {g0, g1, g2, RemoveNode(g1, <<3, 1>>).g, RemoveNode(g2, <<3, 1>>).g,
         RemoveNode(g2, <<4, 1>>).g}

InitDeactivate ==
    /\ graph \in BuiltGraphs
    /\ last = [op |-> "new", ret |-> <<>>, n |-> 0]
    /\ cx = NoContext
    /\ to_executor = <<>>
    /\ to_graph = <<>>
    /\ processor = NoProcessor
    /\ ghost = NoGhost

NextDeactivate ==
    \/ Activate
    \/ UpdateBegin
    \/ UpdateInternalPop
    \/ UpdateInternalDone
    \/ UpdateCompile({{}})
    \/ DeactivateBegin
    \/ DeactivateStop
    \/ DeactivateEnd
    \/ ProcessInterleaved({1}, NoAudio)
    \/ PollMessages
    \/ PollDone
    \/ DropProcessor

SpecDeactivate ==
    /\ InitDeactivate /\ [][NextDeactivate]_vars
    /\ WF_cx(DeactivateStop)
    /\ WF_to_graph(UpdateInternalPop)
    /\ WF_cx(DeactivateEnd)

\* The control thread is inside deactivate().
Deactivating == cx.pc \in {"deactivate_stop", "deactivate_wait"}
\* The step is the return of deactivate().
DeactivateReturns == Deactivating /\ cx'.pc = "idle"

\* C20: a call of deactivate() returns; the step after the drain in which
\* Dropped was seen is the return; and on return the context is inactive,
\* every node is inactive, active_nodes_to_remove and
\* nodes_to_remove_from_schedule are empty, needs_compile is true, and
\* every node is listed for activation.
C20_DeactivateReturnsClean ==
    /\ Deactivating ~> (cx.pc = "idle" /\ cx.state = "Inactive")
    /\ [][/\ (cx.pc = "deactivate_wait" /\ cx.dropped /\ to_graph = <<>>)
             => DeactivateReturns
          /\ DeactivateReturns
             => /\ cx'.state = "Inactive"
                /\ last'.op = "deactivate"
                /\ \A n \in NodeIds(graph') : ~ArenaGet(graph'.nodes, n).activated
                /\ graph'.active_nodes_to_remove = {}
                /\ graph'.nodes_to_remove_from_schedule = <<>>
                /\ graph'.needs_compile
                /\ \A n \in NodeIds(graph') :
                      \E i \in 1..Len(graph'.nodes_to_activate) :
                          graph'.nodes_to_activate[i] = n]_cx

C20_Witness ==
    /\ last.op = "deactivate" /\ last.ret = <<TRUE>>
    /\ cx.state = "Inactive" /\ cx.pc = "idle"
    /\ processor.status = "dropped"
    /\ ghost.pushed = 0
    /\ ~ArenaContains(graph.nodes, <<3, 1>>)
    /\ ArenaContains(graph.nodes, <<4, 1>>)

(***************************************************************************)
(* SpecFlag: the mutation API, the failing calls included, between the     *)
(* update() calls of an active context, which compile the graph when       *)
(* needs_compile is set.  No callback runs: the ring buffer to the         *)
(* executor fills up.                                                       *)
(***************************************************************************)
FlagLim == <<FlagNodeSlots, 1, FlagEdgeSlots, 1, FlagCalls>>

InitFlag == InitWith({<<1, 1>>})

NextFlag ==
    \/ /\ cx.pc = "idle"
       /\ \/ DoAddNode({<<1, 1>>}, FlagLim)
          \/ DoRemoveNode(AnyOutcome, FlagLim)
          \/ DoSetNumInputs(0..1, FlagLim)
          \/ DoSetNumOutputs(0..1, FlagLim)
          \/ DoConnect({0}, BOOLEAN, AnyOutcome, FlagLim)
          \/ DoDisconnect({0}, FlagLim)
          \/ DoDisconnectByEdgeId(BOOLEAN, FlagLim)
          \/ DoReset(FlagLim)
       /\ UNCHANGED ctxVars
    \/ Activate
    \/ UpdateBegin
    \/ UpdateInternalDone
    \/ UpdateCompile({{}})

SpecFlag == InitFlag /\ [][NextFlag]_vars

\* The nodes with their port counts, and the edges.
GraphContent(g) ==
    <<{<<n, ArenaGet(g.nodes, n).num_inputs, ArenaGet(g.nodes, n).num_outputs>> :
          n \in NodeIds(g)},
      EdgeSet(g)>>

\* The step is a call of the mutation API.
Mutates == last'.n = last.n + 1
\* The call of the step succeeded: add_node, an Ok, or a disconnect that
\* removed an edge.
MutationSucceeded ==
    \/ last'.op = "add_node"
    \/ /\ last'.op \in {"remove_node", "set_num_inputs", "set_num_outputs", "connect"}
       /\ IsOk(last'.ret)
    \/ /\ last'.op \in {"disconnect", "disconnect_by_edge_id"}
       /\ EdgeSet(graph') # EdgeSet(graph)
\* The call of the step failed, or removed nothing.
MutationFailed ==
    \/ /\ last'.op \in {"remove_node", "set_num_inputs", "set_num_outputs", "connect"}
       /\ IsErr(last'.ret)
    \/ /\ last'.op \in {"disconnect", "disconnect_by_edge_id", "reset"}
       /\ GraphContent(graph') = GraphContent(graph)
\* The step is a compile of update() that succeeded.
CompileSucceeds ==
    /\ CompilesInUpdate
    /\ last'.op = "update" /\ last'.ret[1] = "Ok"

\* C27: a successful mutation sets needs_compile; a mutation that fails or
\* removes nothing leaves it as it was; a successful compile clears it;
\* and it is false only after a successful compile and for as long as the
\* nodes, their port counts and the edges stay what was compiled.
C27_NeedsCompileTracksChanges ==
    [][/\ (Mutates /\ MutationSucceeded) => graph'.needs_compile
       /\ (Mutates /\ MutationFailed) => graph'.needs_compile = graph.needs_compile
       /\ CompileSucceeds => ~graph'.needs_compile
       /\ ~graph'.needs_compile =>
             \/ CompileSucceeds
             \/ ~graph.needs_compile /\ GraphContent(graph') = GraphContent(graph)]_vars

\* A graph with an edge has been compiled, and a failed call has left
\* needs_compile cleared.
C27_Witness ==
    /\ ~graph.needs_compile /\ EdgeSet(graph) # {}
    /\ ghost.pushed > 0
    /\ last.op = "connect" /\ IsErr(last.ret)

(***************************************************************************)
(* SpecSilence: graphs of graph_in and graph_out alone, with as many       *)
(* graph inputs as graph outputs, connected port to port by the control    *)
(* thread; the stream feeds each callback channels that are all zeros or   *)
(* carry a signal, one frame at a time.                                    *)
(***************************************************************************)
SilenceLim == <<2, 1, SilenceChannels, 1, 0>>

\* The choices of a callback: the content of each of the stream's input
\* channels, and as many output channels.
StreamChannels ==
    UNION {{<<input, n>> : input \in [1..n -> {"zero", "signal"}]} : n \in 1..SilenceChannels}

InitSilence == InitWith({<<n, n>> : n \in 1..SilenceChannels})

NextSilence ==
    \/ /\ cx.pc = "idle"
       /\ \E port \in 0..(SilenceChannels - 1) :
              DoConnect({port}, {FALSE}, {"Ok"}, SilenceLim)
       /\ UNCHANGED ctxVars
    \/ Activate
    \/ UpdateBegin
    \/ UpdateInternalPop
    \/ UpdateInternalDone
    \/ UpdateCompile({{}})
    \/ ProcessInterleaved({1}, StreamChannels)
    \/ PollMessages
    \/ PollDone

SpecSilence == InitSilence /\ [][NextSilence]_vars

\* process_interleaved() has returned after processing a block.
BlockProcessed ==
    /\ processor.status = "alive" /\ processor.pc = "idle"
    /\ processor.ret = "Ok" /\ processor.blocks # <<>>

\* The schedule is graph_in followed by graph_out, and input i of graph_out
\* is fed by output i of graph_in: an edge ends at it, and its buffer is
\* the buffer of that output.
PassesThrough(s, i) ==
    /\ Len(s.nodes) = 2 /\ s.nodes[1].id = GraphIn /\ s.nodes[2].id = GraphOut
    /\ i < Len(s.nodes[1].output_buffers) /\ i < Len(s.nodes[2].input_buffers)
    /\ ~s.nodes[2].input_buffers[i + 1].should_clear
    /\ s.nodes[2].input_buffers[i + 1].buffer_index
          = s.nodes[1].output_buffers[i + 1].buffer_index

\* C28: when a block has been processed whose input was all zeros, the
\* silence mask handed to the read_graph_outputs closure flags every
\* output channel that is connected straight to the graph input of the
\* same index.
C28_SilentInputGivesSilentOutput ==
    (/\ BlockProcessed
     /\ \A c \in DOMAIN processor.input : processor.input[c] = "zero")
    => \A i \in 0..(processor.num_out_channels - 1) :
          PassesThrough(processor.schedule_data.schedule, i)
              => i \in processor.silence_mask

\* The step is the top of the loop of process_interleaved(): the input of
\* the block is deinterleaved into the graph input buffers.
PreparesBlock ==
    /\ processor'.status = "alive" /\ processor'.pc = "poll_block"
    /\ processor' # processor
    /\ to_executor' = to_executor

\* C34: the mask deinterleave() returns, which prepare_graph_inputs stores
\* in the silence flags of the graph input buffers, flags channel i exactly
\* when the samples of channel i of the block's input are all zero,
\* whatever the buffers held before the call.
C34_MaskFollowsInput ==
    [][PreparesBlock =>
         LET s == processor'.schedule_data.schedule
             outs == s.nodes[1].output_buffers
         IN  \A i \in 0..(Len(processor'.input) - 1) :
                i < Len(outs) =>
                   (s.buffer_silence_flags[outs[i + 1].buffer_index + 1]
                       <=> processor'.input[i + 1] = "zero")]_vars

(***************************************************************************)
(* SpecMask: a SilenceMask (silence_mask.rs) under set_channel and         *)
(* is_channel_silent.  The u64 is the set of its bits that are 1.  The     *)
(* build is made with overflow checks (debug) or without (release).         *)
(***************************************************************************)
U64Bits == 64

\* NONE_SILENT
NoneSilent == {}

\* "0b1 << i" on a u64: with i >= 64 the shift overflows, which panics in a
\* build with overflow checks and shifts by i mod 64 in a build without.
ShiftOne(i, overflow_checks) ==
    IF i < U64Bits THEN [panic |-> FALSE, bits |-> {i}]
    ELSE IF overflow_checks THEN [panic |-> TRUE, bits |-> {}]
    ELSE [panic |-> FALSE, bits |-> {i % U64Bits}]

\* SilenceMask::is_channel_silent: "self.0 & (0b1 << i) != 0"
IsChannelSilent(mask, i, overflow_checks) ==
    [panic |-> ShiftOne(i, overflow_checks).panic,
     silent |-> mask \cap ShiftOne(i, overflow_checks).bits # {}]

\* SilenceMask::set_channel: "self.0 |= 0b1 << i" or "self.0 &= !(0b1 << i)"
SetChannel(mask, i, silent, overflow_checks) ==
    [panic |-> ShiftOne(i, overflow_checks).panic,
     mask |-> IF ShiftOne(i, overflow_checks).panic THEN mask
              ELSE IF silent THEN mask \cup ShiftOne(i, overflow_checks).bits
              ELSE mask \ ShiftOne(i, overflow_checks).bits]

\* The channels the calls are made with: the first two, and those around
\* the last bit of the u64.
MaskChannels == {0, 1} \cup ((U64Bits - 2)..MaskMaxChannel)

\* last.ret is the call made last: the mask before and after it, its
\* arguments, and what it returned.
MaskCall(op, before, i, arg, mask, panic, silent) ==
    [op |-> op, n |-> 0,
     ret |-> [overflow_checks |-> last.ret.overflow_checks,
              before |-> before, i |-> i, arg |-> arg,
              mask |-> mask, panic |-> panic, silent |-> silent]]

InitMask ==
    /\ graph = NewGraph(0, 0)
    /\ \E overflow_checks \in BOOLEAN :
          last = [op |-> "new", n |-> 0,
                  ret |-> [overflow_checks |-> overflow_checks,
                           before |-> NoneSilent, i |-> 0, arg |-> FALSE,
                           mask |-> NoneSilent, panic |-> FALSE, silent |-> FALSE]]
    /\ cx = NoContext
    /\ to_executor = <<>>
    /\ to_graph = <<>>
    /\ processor = NoProcessor
    /\ ghost = NoGhost

DoSetChannel ==
    /\ ~last.ret.panic
    /\ \E i \in MaskChannels, silent \in BOOLEAN :
          LET r == SetChannel(last.ret.mask, i, silent, last.ret.overflow_checks)
          IN  last' = MaskCall("set_channel", last.ret.mask, i, silent,
                               r.mask, r.panic, FALSE)
    /\ UNCHANGED <<graph, cx, to_executor, to_graph, processor, ghost>>

DoIsChannelSilent ==
    /\ ~last.ret.panic
    /\ \E i \in MaskChannels :
          LET r == IsChannelSilent(last.ret.mask, i, last.ret.overflow_checks)
          IN  last' = MaskCall("is_channel_silent", last.ret.mask, i, FALSE,
                               last.ret.mask, r.panic, r.silent)
    /\ UNCHANGED <<graph, cx, to_executor, to_graph, processor, ghost>>

NextMask == DoSetChannel \/ DoIsChannelSilent

SpecMask == InitMask /\ [][NextMask]_vars

\* C35: for i < 64, set_channel(i, b) makes is_channel_silent(i) return b
\* and changes no other bit, and is_channel_silent(i) tells whether bit i
\* is set; for i >= 64, set_channel(i, b) leaves the mask as it was and
\* is_channel_silent(i) returns false; no call panics.
C35_MaskClampsChannels ==
    LET c == last.ret
    IN  /\ ~c.panic
        /\ last.op = "set_channel" =>
              IF c.i < U64Bits
              THEN /\ IsChannelSilent(c.mask, c.i, c.overflow_checks).silent = c.arg
                   /\ c.mask \ {c.i} = c.before \ {c.i}
              ELSE c.mask = c.before
        /\ last.op = "is_channel_silent" =>
              IF c.i < U64Bits THEN c.silent = (c.i \in c.mask) ELSE ~c.silent

(***************************************************************************)
(* SpecDeliver: one activation of the context, never stopped.  The control *)
(* thread adds nodes until the arena is full and keeps calling update();   *)
(* the stream keeps calling the executor.  Each thread runs its own code   *)
(* without being blocked, and both calls keep being made.  The compile of  *)
(* update() can always be made where the thread stands before it, so its   *)
(* fairness is that the thread does not stay there.                        *)
(***************************************************************************)
DeliverLim == <<DeliverNodeSlots, 1, 0, 1, 0>>

InitDeliver == InitWith({<<0, 2>>})

\* add_node(num_inputs, num_outputs) called as a statement: the NodeID it
\* returns is not kept in `last`.
AddNodeStatement(shapes, lim) ==
    \E sh \in shapes :
        /\ ArenaWithinBounds(AddNode(graph, sh[1], sh[2]).g.nodes, lim[1], lim[2])
        /\ graph' = AddNode(graph, sh[1], sh[2]).g
        /\ last' = [op |-> "add_node", ret |-> <<>>, n |-> last.n]

NextDeliver ==
    \/ /\ cx.pc = "idle"
       /\ AddNodeStatement({<<1, 1>>}, DeliverLim)
       /\ UNCHANGED ctxVars
    \/ Activate
    \/ UpdateBegin
    \/ UpdateInternalPop
    \/ UpdateInternalDone
    \/ UpdateCompile({{}})
    \/ ProcessInterleaved({1}, NoAudio)
    \/ PollMessages
    \/ PollDone

SpecDeliver ==
    /\ InitDeliver /\ [][NextDeliver]_vars
    /\ WF_vars(Activate)
    /\ WF_vars(UpdateBegin)
    /\ WF_vars(UpdateInternalPop)
    /\ WF_vars(UpdateInternalDone)
    /\ []<>(cx.pc # "compile")
    /\ WF_vars(ProcessInterleaved({1}, NoAudio))
    /\ WF_vars(PollMessages)
    /\ WF_vars(PollDone)

\* The control thread has made its last mutation: the graph is final.
GraphIsFinal == Len(graph.nodes.storage) = DeliverNodeSlots
\* The executor runs a schedule compiled from the graph as it is now and
\* holds a processor for every node of it, and nothing awaits a compile.
Delivered ==
    /\ ~graph.needs_compile
    /\ processor.status = "alive"
    /\ processor.schedule_data # None
    /\ processor.schedule_data.schedule.nodes = CompileInternal(graph).schedule
    /\ NodeIds(graph) \subseteq processor.nodes

\* C39: once the control thread has stopped mutating the graph, with
\* update() and the executor's callback both still being called, no Stop
\* and no compile error, eventually needs_compile is false and the executor
\* runs a schedule compiled from the final graph with a processor for every
\* node of it.
C39_EventualDelivery == (GraphIsFinal /\ cx.state = "Active") ~> Delivered

(***************************************************************************)
(* SpecResize: one activation of the context; the control thread adds a    *)
(* node, changes port counts with set_num_inputs and set_num_outputs and   *)
(* calls update(), while the executor processes blocks.                    *)
(***************************************************************************)
ResizeLim == <<ResizeNodeSlots, 1, 0, 1, ResizeCalls>>

InitResize == InitWith({<<1, 1>>})

NextResize ==
    \/ /\ cx.pc = "idle"
       /\ \/ DoAddNode({<<1, 1>>}, ResizeLim)
          \/ DoSetNumInputs(1..ResizeMaxPorts, ResizeLim)
          \/ DoSetNumOutputs(1..ResizeMaxPorts, ResizeLim)
       /\ UNCHANGED ctxVars
    \/ Activate
    \/ UpdateBegin
    \/ UpdateInternalPop
    \/ UpdateInternalDone
    \/ UpdateCompile({{}})
    \/ ProcessInterleaved({1}, NoAudio)
    \/ PollMessages
    \/ PollDone

SpecResize == InitResize /\ [][NextResize]_vars

\* C40: in every block, the numbers of input and output slices handed to
\* a node's processor (the input and output assignments of its
\* ScheduledNode) are the num_inputs and num_outputs given to the
\* activate() call that made the processor.
C40_PortCountsStable ==
    [][ProcessesBlock =>
          \A k \in 1..Len(processor.schedule_data.schedule.nodes) :
             \A np \in processor.node_processors :
                np.id = processor.schedule_data.schedule.nodes[k].id =>
                   /\ Len(processor.schedule_data.schedule.nodes[k].input_buffers)
                         = np.num_inputs
                   /\ Len(processor.schedule_data.schedule.nodes[k].output_buffers)
                         = np.num_outputs]_vars

(***************************************************************************)
(* SpecLimits: nodes with 1, 64 and 65 ports are added, and preprocess()   *)
(* is run on the graph, by cycle_detected().                               *)
(***************************************************************************)
LimitsLim == <<LimitsNodeSlots, 1, 0, 1, 0>>

\* The (num_inputs, num_outputs) given to add_node.
LimitsShapes ==
    {<<1, 1>>, <<MaxPorts, 1>>, <<1, MaxPorts>>, <<MaxPorts + 1, 1>>, <<1, MaxPorts + 1>>}

InitLimits == InitWith({<<1, 1>>})

NextLimits ==
    /\ \/ DoAddNode(LimitsShapes, LimitsLim)
       \/ DoCycleDetected(LimitsLim)
    /\ UNCHANGED ctxVars

SpecLimits == InitLimits /\ [][NextLimits]_vars

\* C23: no node of the graph has more than 64 inputs or more than 64
\* outputs (add_node has refused it), so that preprocess(), the first pass
\* of a compile, does not panic on its assertions.
C23_AddNodeRejectsOver64Ports ==
    /\ \A n \in NodeIds(graph) :
          /\ ArenaGet(graph.nodes, n).num_inputs <= MaxPorts
          /\ ArenaGet(graph.nodes, n).num_outputs <= MaxPorts
    /\ last.op = "cycle_detected" => last.ret[1] # "Panic"

====
